---- MODULE Spec2Model ----
(***************************************************************************)
(* Verification model of the crawl-and-index pipeline of whisprer/fin      *)
(* (file-utils-iii/.old): the concurrent crawler (crawler.rs), the         *)
(* indexing consumer loop (main.rs), the prime tokenizer (tokenizer.rs)    *)
(* and the engine's checkpointing and search (adv/src/engine.rs).          *)
(*                                                                         *)
(* Scheduling.  Crawler::crawl runs its workers with                       *)
(* stream::for_each_concurrent inside ONE task: the worker futures are     *)
(* polled in turn by that task, so a worker runs without interruption      *)
(* from one .await to the next.  The std Mutex sections between two awaits *)
(* of a worker are therefore executed atomically with respect to the other *)
(* workers, and every worker action below is one loop iteration (or one    *)
(* resumption after an await).  The consumer loop of main runs in a second *)
(* task and shares only the channel with the workers.                      *)
(***************************************************************************)
EXTENDS Integers, Sequences, FiniteSets, TLC

(***************************************************************************)
(* Bounds of the model.                                                    *)
(***************************************************************************)
NumWorkers == 2
MaxPagesBound == 2
MaxDepthBound == 1
MaxLinks == 1
MaxPreload == 1
ChanCap == 1

Workers == 1..NumWorkers

(***************************************************************************)
(* URL strings.  The frontier and the visited set hold strings; a string   *)
(* is parsed with Url::parse before it is fetched, and a link is the       *)
(* string of a parsed (joined) URL.  "http://a" is a string that is not in *)
(* normal form: it parses to the URL whose string is "http://a/".          *)
(***************************************************************************)
ParseErr == "<parse error>"
NoHost == "<none>"

UrlStrings == {"http://a", "http://a/", "http://b/", "mailto:x", "::bad"}

\* Url::parse(s) followed by Url::to_string
UrlParse(s) ==
    CASE s = "http://a"  -> "http://a/"
      [] s = "http://a/" -> "http://a/"
      [] s = "http://b/" -> "http://b/"
      [] s = "mailto:x"  -> "mailto:x"
      [] OTHER           -> ParseErr

\* Url::host_str of a parsed URL
host_str(u) ==
    CASE u = "http://a/" -> "a"
      [] u = "http://b/" -> "b"
      [] OTHER           -> NoHost

\* Crawler::extract_domain
extract_domain(s) ==
    IF UrlParse(s) = ParseErr THEN NoHost ELSE host_str(UrlParse(s))

\* the strings url.join(href).to_string() produces for the links of the
\* modelled pages: normal forms only, and http links only
LinkStrings ==
    {u \in {UrlParse(s) : s \in UrlStrings} \ {ParseErr} : host_str(u) # NoHost}

SeqsUpTo(S, n) == UNION {[1..k -> S] : k \in 0..n}

\* the seed lists tried: a string not in normal form, two hosts, a repeated
\* seed, an unparsable seed, a seed without a host
SeedLists ==
    { <<"http://a">>,
      <<"http://a/", "http://b/">>,
      <<"http://b/", "http://b/">>,
      <<"::bad", "http://a/">>,
      <<"mailto:x">> }
LinkLists == SeqsUpTo(LinkStrings, MaxLinks)

Range(s) == {s[i] : i \in 1..Len(s)}

NoDomains == {"<no allow-list>"}
NoCur == [str |-> "", url |-> "", depth |-> 0]
NoDoc == [url |-> ""]

VARIABLES
    \* Crawler fields and crawl() locals
    max_pages, max_depth, stay_in_domain, allowed_domains,
    seed_urls, crawlPhase, allowed,
    url_queue, visited_urls,
    pc, cur, doc,
    \* the mpsc channel and the consumer loop of main
    chan, consumerPc, engineLen, indexed,
    \* observation of the crawl: requests issued, documents sent, errors printed
    fetchCount, sent, failLog

crawlVars == <<max_pages, max_depth, stay_in_domain, allowed_domains,
               seed_urls, crawlPhase, allowed, url_queue, visited_urls,
               pc, cur, doc, chan, consumerPc, engineLen,
               indexed, fetchCount, sent, failLog>>

VARIABLES
    \* respect_rate_limits: wall clock (ms), the timestamp map, and per worker
    \* the position, the host, the local `now`, the timer and the request count
    clock, domain_timestamps, rpc, rhost, rnow, rwake, rcount,
    \* observation: the requests issued, with their host and time
    reqLog

rateVars == <<clock, domain_timestamps, rpc, rhost, rnow, rwake, rcount, reqLog>>

VARIABLES
    \* PrimeTokenizer: the two maps, the cursor, the last prime the generator
    \* has yielded (0: none yet)
    token_to_prime, prime_to_token, current_prime, primal_generator,
    \* observation: the calls made, the last text and its result, the tokens in
    \* first-seen order and the prime each got at its first occurrence
    tokCalls, lastText, lastOut, firstSeen, firstPrime

tokVars == <<token_to_prime, prime_to_token, current_prime, primal_generator,
             tokCalls, lastText, lastOut, firstSeen, firstPrime>>

VARIABLES
    \* the engine's document store, the checkpoint file (a character
    \* sequence, NoFile before the first save), the store the file was saved
    \* from, and the outcome of loading the file into a fresh engine
    docs, ckptFile, savedDocs, loadStatus, loadedDocs

ckptVars == <<docs, ckptFile, savedDocs, loadStatus, loadedDocs>>

VARIABLES
    \* the engine as search sees it: the paths of the indexed documents in
    \* store order and the two scoring switches
    engine_docs, use_quantum_score, use_persistence_score,
    \* observation of the last search: "none", "empty_query" or "done", its
    \* top_k, the results before the sort and the results returned; a later
    \* call of another method clears it
    searchState, searchTopK, scored, results

searchVars == <<engine_docs, use_quantum_score, use_persistence_score,
                searchState, searchTopK, scored, results>>

tokObserved == <<tokCalls, lastText, lastOut, firstSeen, firstPrime>>

VARIABLES
    \* prime_hilbert.rs on its own: two token sequences, the vectors
    \* build_vector made of them, and the values dot_product returned for
    \* (a, b), (b, a) and (a, a)
    primesA, primesB, vectorA, vectorB, dotAB, dotBA, dotAA, vecPc

vecVars == <<primesA, primesB, vectorA, vectorB, dotAB, dotBA, dotAA, vecPc>>

VARIABLES
    \* the engine with its vectors: the document store, the documents added
    \* since the last relationship update or quantum jump, the last call
    \* with its text (for a search also the query vector and entropy), and
    \* the number of searches and jumps made
    indexed_docs, freshDocs, lastCall, engCalls

engVars == <<indexed_docs, freshDocs, lastCall, engCalls>>

VARIABLES
    \* the workers' use of the three mutexes: the step each worker is at, the
    \* guards it holds, and what it did to the timestamp map since it entered
    \* respect_rate_limits
    at, held, rateOps

lockVars == <<at, held, rateOps>>

VARIABLES
    \* entropy.rs on its own: the arguments of a call of persistence_score,
    \* the value it returned, and whether it has been called
    perArgs, perOut, perPc

perVars == <<perArgs, perOut, perPc>>

VARIABLES
    \* tokenize_without_update: the slice of the last call and the vector it
    \* returned
    twuPrimes, twuOut

twuVars == <<twuPrimes, twuOut>>

vars == <<crawlVars, rateVars, tokVars, ckptVars, searchVars, vecVars,
        lockVars, engVars, perVars, twuVars>>

(***************************************************************************)
(* The crawler.                                                            *)
(***************************************************************************)
CrawlInit ==
    /\ max_pages \in 0..MaxPagesBound
    /\ max_depth \in 0..MaxDepthBound
    /\ stay_in_domain \in BOOLEAN
    /\ allowed_domains = NoDomains
    /\ seed_urls \in SeedLists
    /\ crawlPhase = "new"
    /\ allowed = NoDomains
    /\ url_queue = <<>>
    /\ visited_urls = {}
    /\ pc = [w \in Workers |-> "unborn"]
    /\ cur = [w \in Workers |-> NoCur]
    /\ doc = [w \in Workers |-> NoDoc]
    /\ chan = <<>>
    /\ consumerPc = "recv"
    /\ engineLen \in 0..MaxPreload
    /\ indexed = <<>>
    /\ fetchCount = [s \in UrlStrings |-> 0]
    /\ sent = <<>>
    /\ failLog = {}

\* the hosts of the queued seed strings
SeedHosts == {extract_domain(seed_urls[i]) : i \in 1..Len(seed_urls)} \ {NoHost}

\* crawl(): seeds pushed at depth 0, allow-list derived, workers created
StartCrawl ==
    /\ crawlPhase = "new"
    /\ crawlPhase' = "running"
    /\ url_queue' = url_queue \o [i \in 1..Len(seed_urls) |-> <<seed_urls[i], 0>>]
    /\ allowed' = IF stay_in_domain
                  THEN LET domains == {extract_domain(url_queue'[i][1]) :
                                           i \in 1..Len(url_queue')} \ {NoHost}
                       IN  IF domains # {} THEN domains ELSE allowed_domains
                  ELSE allowed_domains
    /\ pc' = [w \in Workers |-> "loop"]
    /\ UNCHANGED <<max_pages, max_depth, stay_in_domain, allowed_domains,
                   seed_urls, visited_urls, cur, doc, chan, consumerPc,
                   engineLen, indexed, fetchCount, sent, failLog>>

cfgVars == <<max_pages, max_depth, stay_in_domain, allowed_domains,
             seed_urls, crawlPhase, allowed>>
consumerVars == <<chan, consumerPc, engineLen, indexed, sent>>

\* a budget test that lets one more page through
BudgetReachedOffByOne == Cardinality(visited_urls) > max_pages

\* the page-budget test at the top of the worker loop
BudgetReached == Cardinality(visited_urls) >= max_pages

\* a visited test that never finds the string
AlreadyVisitedNever(s) == FALSE

\* visited.contains(&url_str)
AlreadyVisited(s) == s \in visited_urls

\* a loop top that breaks one visited string short of the budget
StopBudgetOneShort(w) ==
    /\ pc[w] = "loop"
    /\ Cardinality(visited_urls) + 1 >= max_pages
    /\ pc' = [pc EXCEPT ![w] = "stopped_budget"]
    /\ UNCHANGED <<cfgVars, url_queue, visited_urls, cur, doc, consumerVars,
                   fetchCount, failLog>>

\* loop top: visited.len() >= max_pages -> break
StopBudget(w) ==
    /\ pc[w] = "loop"
    /\ BudgetReached
    /\ pc' = [pc EXCEPT ![w] = "stopped_budget"]
    /\ UNCHANGED <<cfgVars, url_queue, visited_urls, cur, doc, consumerVars,
                   fetchCount, failLog>>

\* pop_front() returned None: sleep 100 ms
GoIdle(w) ==
    /\ pc[w] = "loop"
    /\ ~BudgetReached
    /\ url_queue = <<>>
    /\ pc' = [pc EXCEPT ![w] = "idle"]
    /\ UNCHANGED <<cfgVars, url_queue, visited_urls, cur, doc, consumerVars,
                   fetchCount, failLog>>

\* a domain filter that lets every host through
FilteredNever(u) == FALSE

\* the domain filter of the worker: Some(allowed), Some(host), host not in allowed
Filtered(u) ==
    /\ allowed # NoDomains
    /\ host_str(u) # NoHost
    /\ host_str(u) \notin allowed

\* popped a string that is already visited: continue
PopVisited(w) ==
    /\ pc[w] = "loop"
    /\ ~BudgetReached
    /\ url_queue # <<>>
    /\ AlreadyVisited(Head(url_queue)[1])
    /\ url_queue' = Tail(url_queue)
    /\ UNCHANGED <<cfgVars, visited_urls, pc, cur, doc, consumerVars,
                   fetchCount, failLog>>

\* popped an unvisited string that Url::parse rejects: marked visited, error printed
PopParseFail(w) ==
    /\ pc[w] = "loop"
    /\ ~BudgetReached
    /\ url_queue # <<>>
    /\ LET s == Head(url_queue)[1] IN
        /\ ~AlreadyVisited(s)
        /\ UrlParse(s) = ParseErr
        /\ visited_urls' = visited_urls \cup {s}
        /\ failLog' = failLog \cup {s}
    /\ url_queue' = Tail(url_queue)
    /\ UNCHANGED <<cfgVars, pc, cur, doc, consumerVars, fetchCount>>

\* a pop that drops a string of a host not allowed without marking it
PopFilteredUnmarked(w) ==
    /\ pc[w] = "loop"
    /\ ~BudgetReached
    /\ url_queue # <<>>
    /\ LET s == Head(url_queue)[1] IN
        /\ ~AlreadyVisited(s)
        /\ UrlParse(s) # ParseErr
        /\ Filtered(UrlParse(s))
    /\ url_queue' = Tail(url_queue)
    /\ UNCHANGED <<cfgVars, visited_urls, pc, cur, doc, consumerVars, fetchCount,
                   failLog>>

\* popped an unvisited string whose host is not allowed: marked visited, continue
PopFiltered(w) ==
    /\ pc[w] = "loop"
    /\ ~BudgetReached
    /\ url_queue # <<>>
    /\ LET s == Head(url_queue)[1] IN
        /\ ~AlreadyVisited(s)
        /\ UrlParse(s) # ParseErr
        /\ Filtered(UrlParse(s))
        /\ visited_urls' = visited_urls \cup {s}
    /\ url_queue' = Tail(url_queue)
    /\ UNCHANGED <<cfgVars, pc, cur, doc, consumerVars, fetchCount, failLog>>

\* popped an unvisited, allowed string: marked visited; the worker then awaits
\* respect_rate_limits, the jitter sleep and the request of
\* fetch_and_process_url, touching no shared crawl state until the response
PopAccept(w) ==
    /\ pc[w] = "loop"
    /\ ~BudgetReached
    /\ url_queue # <<>>
    /\ LET s == Head(url_queue)[1]
           d == Head(url_queue)[2] IN
        /\ ~AlreadyVisited(s)
        /\ UrlParse(s) # ParseErr
        /\ ~Filtered(UrlParse(s))
        /\ visited_urls' = visited_urls \cup {s}
        /\ cur' = [cur EXCEPT ![w] = [str |-> s, url |-> UrlParse(s), depth |-> d]]
        /\ fetchCount' = [fetchCount EXCEPT ![s] = @ + 1]
    /\ url_queue' = Tail(url_queue)
    /\ pc' = [pc EXCEPT ![w] = "fetching"]
    /\ UNCHANGED <<cfgVars, doc, consumerVars, failLog>>

\* an idle test that gives up whatever the queue holds
QueueIsEmptyAlways == TRUE

\* url_queue.lock().unwrap().is_empty() after the idle sleep
QueueIsEmpty == url_queue = <<>>

\* after the 100 ms sleep the queue is still empty: break
IdleStop(w) ==
    /\ pc[w] = "idle"
    /\ QueueIsEmpty
    /\ pc' = [pc EXCEPT ![w] = "stopped_empty"]
    /\ UNCHANGED <<cfgVars, url_queue, visited_urls, cur, doc, consumerVars,
                   fetchCount, failLog>>

\* after the 100 ms sleep the queue has entries: next iteration
IdleResume(w) ==
    /\ pc[w] = "idle"
    /\ ~QueueIsEmpty
    /\ pc' = [pc EXCEPT ![w] = "loop"]
    /\ UNCHANGED <<cfgVars, url_queue, visited_urls, cur, doc, consumerVars,
                   fetchCount, failLog>>

\* a failed request that ends the worker
FetchErrStopsWorker(w) ==
    /\ pc[w] = "fetching"
    /\ pc' = [pc EXCEPT ![w] = "stopped_empty"]
    /\ failLog' = failLog \cup {cur[w].str}
    /\ cur' = [cur EXCEPT ![w] = NoCur]
    /\ UNCHANGED <<cfgVars, url_queue, visited_urls, doc, consumerVars, fetchCount>>

\* the request failed or the status was not 2xx: Err, printed by the worker
FetchErr(w) ==
    /\ pc[w] = "fetching"
    /\ pc' = [pc EXCEPT ![w] = "loop"]
    /\ failLog' = failLog \cup {cur[w].str}
    /\ cur' = [cur EXCEPT ![w] = NoCur]
    /\ UNCHANGED <<cfgVars, url_queue, visited_urls, doc, consumerVars, fetchCount>>

\* reqwest fetches http(s) only, and an http(s) URL has a host
Fetchable(u) == host_str(u) # NoHost

\* the content type is not text/html: Ok(None)
FetchSkip(w) ==
    /\ pc[w] = "fetching"
    /\ Fetchable(cur[w].url)
    /\ pc' = [pc EXCEPT ![w] = "loop"]
    /\ cur' = [cur EXCEPT ![w] = NoCur]
    /\ UNCHANGED <<cfgVars, url_queue, visited_urls, doc, consumerVars,
                   fetchCount, failLog>>

\* an HTML page whose body text is empty or white space, with the links it
\* has: Ok(None), returned before the links are looked at
FetchEmptyPage(w, links) ==
    /\ pc[w] = "fetching"
    /\ Fetchable(cur[w].url)
    /\ pc' = [pc EXCEPT ![w] = "loop"]
    /\ cur' = [cur EXCEPT ![w] = NoCur]
    /\ UNCHANGED <<cfgVars, url_queue, visited_urls, doc, consumerVars,
                   fetchCount, failLog>>

\* the links of a page that are not visited, each at depth + 1, in page order
RECURSIVE NewEntries(_, _, _)
NewEntries(links, visitedSet, depth) ==
    IF links = <<>> THEN <<>>
    ELSE LET rest == NewEntries(Tail(links), visitedSet, depth) IN
         IF Head(links) \notin visitedSet
         THEN <<(<<Head(links), depth + 1>>)>> \o rest
         ELSE rest

\* a depth test that follows links one level too deep
ExtractLinksInclusive(depth) == depth <= max_depth

\* extract_links = depth < max_depth
ExtractLinks(depth) == depth < max_depth

\* an HTML page with body text: links enqueued when below max_depth,
\* Ok(Some(doc))
FetchPage(w, links) ==
    /\ pc[w] = "fetching"
    /\ Fetchable(cur[w].url)
    /\ url_queue' = IF ExtractLinks(cur[w].depth)
                    THEN url_queue \o NewEntries(links, visited_urls, cur[w].depth)
                    ELSE url_queue
    /\ doc' = [doc EXCEPT ![w] = [url |-> cur[w].url]]
    /\ pc' = [pc EXCEPT ![w] = "sending"]
    /\ UNCHANGED <<cfgVars, visited_urls, cur, consumerVars, fetchCount, failLog>>

\* a send that completes only while the consumer is still receiving
SendToReceiver(w) ==
    /\ pc[w] = "sending"
    /\ consumerPc = "recv"
    /\ Len(chan) < ChanCap
    /\ chan' = Append(chan, doc[w])
    /\ sent' = Append(sent, doc[w])
    /\ pc' = [pc EXCEPT ![w] = "loop"]
    /\ cur' = [cur EXCEPT ![w] = NoCur]
    /\ doc' = [doc EXCEPT ![w] = NoDoc]
    /\ UNCHANGED <<cfgVars, url_queue, visited_urls, consumerPc, engineLen,
                   indexed, fetchCount, failLog>>

\* doc_sender.send(doc).await completes when the channel has room
Send(w) ==
    /\ pc[w] = "sending"
    /\ Len(chan) < ChanCap
    /\ chan' = Append(chan, doc[w])
    /\ sent' = Append(sent, doc[w])
    /\ pc' = [pc EXCEPT ![w] = "loop"]
    /\ cur' = [cur EXCEPT ![w] = NoCur]
    /\ doc' = [doc EXCEPT ![w] = NoDoc]
    /\ UNCHANGED <<cfgVars, url_queue, visited_urls, consumerPc, engineLen,
                   indexed, fetchCount, failLog>>

AllStopped == \A w \in Workers : pc[w] \in {"stopped_budget", "stopped_empty"}

(***************************************************************************)
(* The consumer loop of main.                                              *)
(***************************************************************************)
\* ResonantEngine::add_crawled_document on the store size: a text without a
\* word (wordy false) is dropped
add_crawled_document(len, wordy) == IF wordy THEN len + 1 ELSE len

\* a consumer that never stops early
RecvNeverStops(wordy) ==
    /\ consumerPc = "recv"
    /\ chan # <<>>
    /\ chan' = Tail(chan)
    /\ engineLen' = add_crawled_document(engineLen, wordy)
    /\ indexed' = Append(indexed, Head(chan))
    /\ consumerPc' = "recv"
    /\ UNCHANGED <<cfgVars, url_queue, visited_urls, pc, cur, doc, fetchCount,
                   sent, failLog>>

\* recv() yields a document: add it, count it, stop early at the target size.
\* Whether the text of the page holds a word is decided by its tokenization
\* here; nothing reads the text before.
Recv(wordy) ==
    /\ consumerPc = "recv"
    /\ chan # <<>>
    /\ chan' = Tail(chan)
    /\ engineLen' = add_crawled_document(engineLen, wordy)
    /\ indexed' = Append(indexed, Head(chan))
    /\ consumerPc' = IF engineLen' >= max_pages THEN "stopped_early" ELSE "recv"
    /\ UNCHANGED <<cfgVars, url_queue, visited_urls, pc, cur, doc, fetchCount,
                   sent, failLog>>

\* senders counted as dropped while workers still hold their clones
SendersDroppedEarly == crawlPhase = "running"

\* the crawl task is over: crawl() returned, doc_sender and the crawler (with
\* the workers' clones) are dropped
SendersDropped == crawlPhase = "running" /\ AllStopped

\* recv() yields None: every sender is dropped and the channel is empty
RecvClosed ==
    /\ consumerPc = "recv"
    /\ SendersDropped
    /\ chan = <<>>
    /\ consumerPc' = "finished"
    /\ UNCHANGED <<cfgVars, url_queue, visited_urls, pc, cur, doc, chan,
                   engineLen, indexed, fetchCount, sent, failLog>>

WorkerNext(w) ==
    \/ StopBudget(w)
    \/ GoIdle(w)
    \/ PopVisited(w)
    \/ PopParseFail(w)
    \/ PopFiltered(w)
    \/ PopAccept(w)
    \/ IdleStop(w)
    \/ IdleResume(w)
    \/ FetchErr(w)
    \/ FetchSkip(w)
    \/ \E links \in LinkLists : FetchEmptyPage(w, links)
    \/ \E links \in LinkLists : FetchPage(w, links)
    \/ Send(w)

(***************************************************************************)
(* Per-domain rate limiting, with time.  Each worker takes URLs of some    *)
(* host and runs lines 247-264 of crawl() for it: respect_rate_limits, the *)
(* jitter sleep, then fetch_and_process_url (50 ms sleep, request).        *)
(* Times are milliseconds.  Timers are punctual: a sleeping worker resumes *)
(* at its deadline, and Tick moves the clock to the next deadline once     *)
(* every due worker has resumed.                                           *)
(***************************************************************************)
RateLimitMs == 1000
FetchPauseMs == 50
MaxRequests == 2

Hosts == {"a", "b"}
NoTime == -1

\* rand::thread_rng().gen_range(100..500): the two extremes
Jitters == {100, 499}

RateOff ==
    /\ clock = 0
    /\ domain_timestamps = [h \in Hosts |-> NoTime]
    /\ rpc = [w \in Workers |-> "off"]
    /\ rhost = [w \in Workers |-> "a"]
    /\ rnow = [w \in Workers |-> 0]
    /\ rwake = [w \in Workers |-> 0]
    /\ rcount = [w \in Workers |-> 0]
    /\ reqLog = {}

RateInit ==
    /\ clock = 0
    /\ domain_timestamps = [h \in Hosts |-> NoTime]
    /\ rpc = [w \in Workers |-> "next"]
    /\ rhost = [w \in Workers |-> "a"]
    /\ rnow = [w \in Workers |-> 0]
    /\ rwake = [w \in Workers |-> 0]
    /\ rcount = [w \in Workers |-> 0]
    /\ reqLog = {}

\* wait_time of respect_rate_limits: Some(1000 - elapsed) or None (0 here)
wait_time(h, now) ==
    IF domain_timestamps[h] # NoTime /\ now - domain_timestamps[h] < RateLimitMs
    THEN RateLimitMs - (now - domain_timestamps[h])
    ELSE 0

\* respect_rate_limits finds the host accessed less than 1000 ms ago: sleep
RateEnterWait(w, h) ==
    /\ rpc[w] = "next"
    /\ rcount[w] < MaxRequests
    /\ wait_time(h, clock) > 0
    /\ rhost' = [rhost EXCEPT ![w] = h]
    /\ rnow' = [rnow EXCEPT ![w] = clock]
    /\ rwake' = [rwake EXCEPT ![w] = clock + wait_time(h, clock)]
    /\ rpc' = [rpc EXCEPT ![w] = "rate_sleep"]
    /\ UNCHANGED <<clock, domain_timestamps, rcount, reqLog>>

\* respect_rate_limits finds no recent access: timestamp written, jitter sleep
RateEnterPass(w, h, jitter) ==
    /\ rpc[w] = "next"
    /\ rcount[w] < MaxRequests
    /\ wait_time(h, clock) = 0
    /\ rhost' = [rhost EXCEPT ![w] = h]
    /\ rnow' = [rnow EXCEPT ![w] = clock]
    /\ domain_timestamps' = [domain_timestamps EXCEPT ![h] = clock]
    /\ rwake' = [rwake EXCEPT ![w] = clock + jitter]
    /\ rpc' = [rpc EXCEPT ![w] = "jitter_sleep"]
    /\ UNCHANGED <<clock, rcount, reqLog>>

\* the rate-limit sleep is over: the timestamp is set to the `now` read on
\* entry, then the jitter sleep starts
RateWake(w, jitter) ==
    /\ rpc[w] = "rate_sleep"
    /\ clock >= rwake[w]
    /\ domain_timestamps' = [domain_timestamps EXCEPT ![rhost[w]] = rnow[w]]
    /\ rwake' = [rwake EXCEPT ![w] = clock + jitter]
    /\ rpc' = [rpc EXCEPT ![w] = "jitter_sleep"]
    /\ UNCHANGED <<clock, rhost, rnow, rcount, reqLog>>

\* the jitter sleep is over: fetch_and_process_url sleeps 50 ms
JitterWake(w) ==
    /\ rpc[w] = "jitter_sleep"
    /\ clock >= rwake[w]
    /\ rwake' = [rwake EXCEPT ![w] = clock + FetchPauseMs]
    /\ rpc' = [rpc EXCEPT ![w] = "fetch_sleep"]
    /\ UNCHANGED <<clock, domain_timestamps, rhost, rnow, rcount, reqLog>>

\* client.get(url).send(): the request starts
RequestStart(w) ==
    /\ rpc[w] = "fetch_sleep"
    /\ clock >= rwake[w]
    /\ reqLog' = reqLog \cup
          {[host |-> rhost[w], at |-> clock, by |-> w, n |-> rcount[w]]}
    /\ rpc' = [rpc EXCEPT ![w] = "in_flight"]
    /\ UNCHANGED <<clock, domain_timestamps, rhost, rnow, rwake, rcount>>

\* the response is processed: next loop iteration
RequestEnd(w) ==
    /\ rpc[w] = "in_flight"
    /\ rcount' = [rcount EXCEPT ![w] = @ + 1]
    /\ rpc' = [rpc EXCEPT ![w] = "next"]
    /\ UNCHANGED <<clock, domain_timestamps, rhost, rnow, rwake, reqLog>>

Sleeping(w) == rpc[w] \in {"rate_sleep", "jitter_sleep", "fetch_sleep"}

\* time passes up to the next deadline
Tick ==
    /\ \E w \in Workers : Sleeping(w)
    /\ \A w \in Workers : Sleeping(w) => rwake[w] > clock
    /\ \A w \in Workers : rpc[w] \notin {"next", "in_flight"} \/ rcount[w] = MaxRequests
    /\ clock' = CHOOSE t \in {rwake[w] : w \in {v \in Workers : Sleeping(v) /\ rwake[v] > clock}} :
                   \A w \in Workers : (Sleeping(w) /\ rwake[w] > clock) => t <= rwake[w]
    /\ UNCHANGED <<domain_timestamps, rpc, rhost, rnow, rwake, rcount, reqLog>>

RateNext ==
    \/ \E w \in Workers, h \in Hosts : RateEnterWait(w, h)
    \/ \E w \in Workers, h \in Hosts, j \in Jitters : RateEnterPass(w, h, j)
    \/ \E w \in Workers, j \in Jitters : RateWake(w, j)
    \/ \E w \in Workers : JitterWake(w)
    \/ \E w \in Workers : RequestStart(w)
    \/ \E w \in Workers : RequestEnd(w)
    \/ Tick

CrawlOff ==
    /\ max_pages = 0
    /\ max_depth = 0
    /\ stay_in_domain = FALSE
    /\ allowed_domains = NoDomains
    /\ seed_urls = <<>>
    /\ crawlPhase = "off"
    /\ allowed = NoDomains
    /\ url_queue = <<>>
    /\ visited_urls = {}
    /\ pc = [w \in Workers |-> "off"]
    /\ cur = [w \in Workers |-> NoCur]
    /\ doc = [w \in Workers |-> NoDoc]
    /\ chan = <<>>
    /\ consumerPc = "off"
    /\ engineLen = 0
    /\ indexed = <<>>
    /\ fetchCount = [s \in UrlStrings |-> 0]
    /\ sent = <<>>
    /\ failLog = {}

(***************************************************************************)
(* The tokenizer.  A text is a sequence of characters, a token a sequence  *)
(* of lower-case word characters.                                          *)
(***************************************************************************)
MaxTextLen == 3
MaxTokenizeCalls == 2

Chars == {"a", "B", " "}
Texts == SeqsUpTo(Chars, MaxTextLen)

\* char::to_lowercase
LowerChar(c) == IF c = "B" THEN "b" ELSE c

\* str::to_lowercase
to_lowercase(text) == [i \in 1..Len(text) |-> LowerChar(text[i])]

\* the class \w of the regex
IsWordChar(c) ==
    c \in {"a", "b", "c", "d", "e", "f", "g", "h", "i", "j", "k", "l", "m", "n",
           "o", "p", "q", "r", "s", "t", "u", "v", "w", "x", "y", "z", "B"}

\* word_regex.find_iter: the maximal runs of word characters (\b\w+\b), in
\* order; run is the word being read
RECURSIVE find_iter(_, _)
find_iter(text, run) ==
    IF text = <<>>
    THEN IF run = <<>> THEN <<>> ELSE <<run>>
    ELSE IF IsWordChar(Head(text))
         THEN find_iter(Tail(text), Append(run, Head(text)))
         ELSE IF run = <<>>
              THEN find_iter(Tail(text), <<>>)
              ELSE <<run>> \o find_iter(Tail(text), <<>>)

IsPrime(n) == n >= 2 /\ \A d \in 2..(n - 1) : n % d # 0

\* Primes::all(): the prime the iterator yields after having yielded g
NextPrimeAfter(g) ==
    CHOOSE p \in (g + 1)..(2 * g + 3) :
        IsPrime(p) /\ \A q \in (g + 1)..(p - 1) : ~IsPrime(q)

\* primal_generator.by_ref().find(|&p| p > current_prime)
RECURSIVE find_next_prime(_, _)
find_next_prime(g, current) ==
    LET p == NextPrimeAfter(g) IN
    IF p > current THEN p ELSE find_next_prime(p, current)

\* a lookup that never finds the token
contains_key_never(map, token) == FALSE

\* self.token_to_prime.contains_key(&token)
contains_key(map, token) == token \in DOMAIN map

\* HashMap::insert
map_insert(map, k, v) == [x \in DOMAIN map \cup {k} |-> IF x = k THEN v ELSE map[x]]

\* the body of the for loop of tokenize, over the matches left; st holds the
\* tokenizer fields and the primes pushed so far
RECURSIVE tokenize_loop(_, _)
tokenize_loop(words, st) ==
    IF words = <<>> THEN st
    ELSE LET token == Head(words)
             st1 == IF ~contains_key(st.ttp, token)
                    THEN LET next_p == find_next_prime(st.gen, st.cur) IN
                         [st EXCEPT !.ttp = map_insert(st.ttp, token, next_p),
                                    !.ptt = map_insert(st.ptt, next_p, token),
                                    !.cur = next_p,
                                    !.gen = next_p]
                    ELSE st
         IN  tokenize_loop(Tail(words),
                           [st1 EXCEPT !.out = Append(st1.out, st1.ttp[token])])

\* the tokens of a list that are not in seen, each once, in order
RECURSIVE NewTokens(_, _)
NewTokens(words, seen) ==
    IF words = <<>> THEN <<>>
    ELSE IF Head(words) \in seen
         THEN NewTokens(Tail(words), seen)
         ELSE <<Head(words)>> \o NewTokens(Tail(words), seen \cup {Head(words)})

\* the first index of a token in a list
FirstIndex(words, token) ==
    CHOOSE i \in 1..Len(words) :
        words[i] = token /\ \A j \in 1..(i - 1) : words[j] # token

EmptyMap == [x \in {} |-> 0]

TokInit ==
    /\ token_to_prime = EmptyMap
    /\ prime_to_token = EmptyMap
    /\ current_prime = 2
    /\ primal_generator = 0
    /\ tokCalls = 0
    /\ lastText = <<>>
    /\ lastOut = <<>>
    /\ firstSeen = <<>>
    /\ firstPrime = EmptyMap

\* tokenize(text) on the tokenizer as it is: the fields after the call and the
\* primes returned
tokenize(text) ==
    tokenize_loop(find_iter(to_lowercase(text), <<>>),
                  [ttp |-> token_to_prime, ptt |-> prime_to_token,
                   cur |-> current_prime, gen |-> primal_generator,
                   out |-> <<>>])

\* a call of PrimeTokenizer::tokenize(text)
Tokenize(text) ==
    /\ tokCalls < MaxTokenizeCalls
    /\ LET words == find_iter(to_lowercase(text), <<>>)
           st == tokenize(text)
           fresh == NewTokens(words, Range(firstSeen))
       IN  /\ token_to_prime' = st.ttp
           /\ prime_to_token' = st.ptt
           /\ current_prime' = st.cur
           /\ primal_generator' = st.gen
           /\ lastOut' = st.out
           /\ firstSeen' = firstSeen \o fresh
           /\ firstPrime' = [t \in DOMAIN firstPrime \cup Range(fresh) |->
                               IF t \in DOMAIN firstPrime THEN firstPrime[t]
                               ELSE st.out[FirstIndex(words, t)]]
    /\ lastText' = text
    /\ tokCalls' = tokCalls + 1

TokNext == \E text \in Texts : Tokenize(text)

\* the slices passed to tokenize_without_update: ids of the vocabulary, ids
\* that are not in it, a number that is not a prime
PrimeSlices == {<<>>, <<3>>, <<4, 11>>, <<11, 3, 3>>}

TwuInit ==
    /\ twuPrimes = <<>>
    /\ twuOut = <<>>

\* primes.to_vec(): a new vector with the elements of the slice
to_vec(slice) == [i \in 1..Len(slice) |-> slice[i]]

\* a pass-through that drops the ids that are not in the vocabulary
tokenize_without_update_known_only(slice) ==
    SelectSeq(slice, LAMBDA p : p \in DOMAIN prime_to_token)

\* PrimeTokenizer::tokenize_without_update(&self, primes)
tokenize_without_update(slice) == to_vec(slice)

\* a call of tokenize_without_update
TokenizeWithoutUpdate(slice) ==
    /\ twuPrimes' = slice
    /\ twuOut' = tokenize_without_update(slice)
    /\ UNCHANGED tokVars

\* the texts tokenized next to tokenize_without_update: no word, one word,
\* two words in both orders, a word in upper case
VocabTexts ==
    {<<" ">>, <<"a">>, <<"B">>, <<"a", " ", "B">>, <<"B", " ", "a">>, <<"a", "B">>}

\* the tokenizer with both of its methods called in any order
VocabNext ==
    \/ \E text \in VocabTexts : Tokenize(text) /\ UNCHANGED twuVars
    \/ \E slice \in PrimeSlices : TokenizeWithoutUpdate(slice)

(***************************************************************************)
(* Checkpoints.  Strings are character sequences; an f64 field is held in  *)
(* tenths (15 is 1.5), formatted and parsed in decimal as Display and      *)
(* str::parse do for the values of the model.                              *)
(***************************************************************************)
MaxDocs == 2

Tab == "\t"
Newline == "\n"

Paths == {<<"u">>, <<"v">>}

Titles == {<<>>, <<"A">>, <<"A", " ", "A">>, <<"A", Tab, "A">>, <<"A", Newline, "A">>}

\* (entropy, reversibility, timestamp)
Metrics == {<<0, 10, 0>>, <<15, 5, 12>>}

StoredDocs ==
    {[path |-> p, title |-> t, entropy |-> m[1], reversibility |-> m[2],
      timestamp |-> m[3]] : p \in Paths, t \in Titles, m \in Metrics}

Digits == <<"0", "1", "2", "3", "4", "5", "6", "7", "8", "9">>

IsDigit(c) == \E d \in 1..10 : Digits[d] = c

DigitValue(c) == (CHOOSE d \in 1..10 : Digits[d] = c) - 1

\* Display of an unsigned integer
RECURSIVE FormatNat(_)
FormatNat(n) ==
    IF n < 10 THEN <<Digits[n + 1]>>
    ELSE Append(FormatNat(n \div 10), Digits[(n % 10) + 1])

\* Display of an f64 held in tenths: 10 is "1", 15 is "1.5"
FormatF64(x) ==
    IF x % 10 = 0 THEN FormatNat(x \div 10)
    ELSE FormatNat(x \div 10) \o <<".", Digits[(x % 10) + 1]>>

ParseFail == -1

\* str::parse::<u64>: a non-empty run of digits, anything else fails
RECURSIVE ParseNat(_)
ParseNat(s) ==
    IF s = <<>> \/ \E i \in 1..Len(s) : ~IsDigit(s[i]) THEN ParseFail
    ELSE IF Len(s) = 1 THEN DigitValue(s[1])
    ELSE 10 * ParseNat(SubSeq(s, 1, Len(s) - 1)) + DigitValue(s[Len(s)])

\* str::parse::<f64>, in tenths: digits, or digits "." digit
ParseF64(s) ==
    IF ParseNat(s) # ParseFail THEN 10 * ParseNat(s)
    ELSE IF /\ Len(s) >= 3
            /\ s[Len(s) - 1] = "."
            /\ IsDigit(s[Len(s)])
            /\ ParseNat(SubSeq(s, 1, Len(s) - 2)) # ParseFail
         THEN 10 * ParseNat(SubSeq(s, 1, Len(s) - 2)) + DigitValue(s[Len(s)])
         ELSE ParseFail

\* a default of zero whatever the field
unwrap_or_zero(parsed, default) == IF parsed = ParseFail THEN 0 ELSE parsed

\* Option::unwrap_or on a parse result
unwrap_or(parsed, default) == IF parsed = ParseFail THEN default ELSE parsed

\* str::replace(from, to) for single characters
replace(s, from, to) == [i \in 1..Len(s) |-> IF s[i] = from THEN to ELSE s[i]]

\* doc.title.replace('\t', " ")
saved_title(title) == replace(title, Tab, " ")

\* str::split(sep): the pieces between the separators, at least one
RECURSIVE split(_, _, _)
split(s, sep, piece) ==
    IF s = <<>> THEN <<piece>>
    ELSE IF Head(s) = sep
         THEN <<piece>> \o split(Tail(s), sep, <<>>)
         ELSE split(Tail(s), sep, Append(piece, Head(s)))

\* str::lines(): the pieces between line feeds, without a last empty one
lines(content) ==
    LET pieces == split(content, Newline, <<>>) IN
    IF pieces[Len(pieces)] = <<>> THEN SubSeq(pieces, 1, Len(pieces) - 1)
    ELSE pieces

\* the record writeln! of save_checkpoint
record_line(d) ==
    d.path \o <<Tab>> \o saved_title(d.title) \o <<Tab>>
        \o FormatF64(d.entropy) \o <<Tab>> \o FormatF64(d.reversibility)
        \o <<Tab>> \o FormatNat(d.timestamp) \o <<Newline>>

RECURSIVE record_lines(_)
record_lines(ds) ==
    IF ds = <<>> THEN <<>> ELSE record_line(Head(ds)) \o record_lines(Tail(ds))

\* the three header lines, shortened to their first character and number
header(count, now) ==
    <<"#", Newline>> \o <<"#">> \o FormatNat(count) \o <<Newline>>
        \o <<"#">> \o FormatNat(now) \o <<Newline>>

\* the file save_checkpoint writes
checkpoint_text(ds, now) == header(Len(ds), now) \o record_lines(ds)

starts_with(line, c) == line # <<>> /\ line[1] = c

\* process_checkpoint_line: the document pushed, or an error
process_checkpoint_line(line) ==
    LET parts == split(line, Tab, <<>>) IN
    IF Len(parts) < 5 THEN [ok |-> FALSE]
    ELSE [ok |-> TRUE,
          doc |-> [path |-> parts[1],
                   title |-> parts[2],
                   entropy |-> unwrap_or(ParseF64(parts[3]), 0),
                   reversibility |-> unwrap_or(ParseF64(parts[4]), 10),
                   timestamp |-> unwrap_or(ParseNat(parts[5]), 0)]]

\* the lines from the first one that is not a header line
RECURSIVE skip_header(_)
skip_header(ls) ==
    IF ls = <<>> THEN <<>>
    ELSE IF starts_with(Head(ls), "#") THEN skip_header(Tail(ls))
    ELSE ls

\* the ? of load_checkpoint: lines are processed until one fails
RECURSIVE process_lines(_, _)
process_lines(ls, acc) ==
    IF ls = <<>> THEN [ok |-> TRUE, docs |-> acc]
    ELSE LET r == process_checkpoint_line(Head(ls)) IN
         IF r.ok THEN process_lines(Tail(ls), Append(acc, r.doc))
         ELSE [ok |-> FALSE, docs |-> acc]

NoFile == <<"(no file)">>

CkptInit ==
    /\ docs = <<>>
    /\ ckptFile = NoFile
    /\ savedDocs = <<>>
    /\ loadStatus = "none"
    /\ loadedDocs = <<>>

\* a document enters the store (add_crawled_document, add_local_document)
AddDocument(d) ==
    /\ Len(docs) < MaxDocs
    /\ docs' = Append(docs, d)
    /\ UNCHANGED <<ckptFile, savedDocs, loadStatus, loadedDocs>>

\* save_checkpoint(path)
SaveCheckpoint(now) ==
    /\ ckptFile' = checkpoint_text(docs, now)
    /\ savedDocs' = docs
    /\ loadStatus' = "none"
    /\ loadedDocs' = <<>>
    /\ UNCHANGED docs

\* load_checkpoint(path) of a fresh engine
LoadCheckpoint ==
    /\ ckptFile # NoFile
    /\ loadStatus = "none"
    /\ LET r == process_lines(skip_header(lines(ckptFile)), <<>>) IN
          /\ loadStatus' = IF r.ok THEN "ok" ELSE "err"
          /\ loadedDocs' = r.docs
    /\ UNCHANGED <<docs, ckptFile, savedDocs>>

CkptNext ==
    \/ \E d \in StoredDocs : AddDocument(d)
    \/ \E now \in {0, 11} : SaveCheckpoint(now)
    \/ LoadCheckpoint

(***************************************************************************)
(* Loading a file that save_checkpoint did not write: any text of a few    *)
(* lines, each a header line, a record, or a damaged record.               *)
(***************************************************************************)
MaxFileLines == 2

FileLines ==
    {<<"#">>,
     <<"#", Tab, Tab, Tab, Tab>>,
     <<>>,
     <<"u", Tab, "A", Tab, "1", ".", "5", Tab, "0", ".", "5", Tab, "1", "2">>,
     <<"u", Tab, "A", Tab, "x", Tab, "x", Tab, "x">>,
     <<"u", Tab, "A", Tab, "2", Tab, ".", Tab, "1", ".", "5">>,
     <<"u", Tab, "A", Tab, "0", Tab, "1">>,
     <<"u", Tab, "A", Tab, "0", Tab, "1", Tab, "0", Tab, "z">>}

\* the texts fs::read_to_string can return: each line ended by a line feed
CheckpointFiles ==
    LET RECURSIVE Join(_)
        Join(ls) == IF ls = <<>> THEN <<>>
                    ELSE Head(ls) \o <<Newline>> \o Join(Tail(ls))
    IN  {Join(ls) : ls \in SeqsUpTo(FileLines, MaxFileLines)}

\* the file at the path is one that something else wrote
PlaceFile(content) ==
    /\ ckptFile' = content
    /\ savedDocs' = <<>>
    /\ loadStatus' = "none"
    /\ loadedDocs' = <<>>
    /\ UNCHANGED docs

LoadNext ==
    \/ \E content \in CheckpointFiles : PlaceFile(content)
    \/ LoadCheckpoint

(***************************************************************************)
(* Search.  The three score components of a document are what the scoring  *)
(* loop computes in floating point from the query, the clock and the       *)
(* document; here each search draws them from ScoreTriples, and a combined *)
(* score is held in hundredths.                                            *)
(***************************************************************************)
MaxIndexed == 3
MaxTopK == 3

SearchTexts == {<<" ">>, <<"a">>}

\* (score, quantum_score, persistence_score) as the loop could compute them
ScoreTriples == {<<1, 0, 0>>, <<1, 4, 0>>, <<2, 0, 1>>}

\* the scoring loop: one result per document, in store order; a component
\* whose switch is off is 0
score_all(triples) ==
    [i \in 1..Len(engine_docs) |->
        [doc |-> i,
         path |-> engine_docs[i],
         score |-> triples[i][1],
         quantum_score |-> IF use_quantum_score THEN triples[i][2] ELSE 0,
         persistence_score |-> IF use_persistence_score THEN triples[i][3] ELSE 0]]

\* a comparator value that ignores the optional scores
combined_standard_only(r) == 100 * r.score

\* a_combined, b_combined of the comparator
combined(r) ==
    IF use_quantum_score /\ use_persistence_score
    THEN 50 * r.score + 25 * r.quantum_score + 25 * r.persistence_score
    ELSE IF use_quantum_score THEN 70 * r.score + 30 * r.quantum_score
    ELSE IF use_persistence_score THEN 70 * r.score + 30 * r.persistence_score
    ELSE 100 * r.score

partial_cmp(x, y) == IF x < y THEN "Less" ELSE IF x > y THEN "Greater" ELSE "Equal"

\* a comparator that orders by a_combined against b_combined
compare_ascending(a, b) == partial_cmp(combined(a), combined(b))

\* the closure of sort_by: b_combined.partial_cmp(&a_combined)
compare(a, b) == partial_cmp(combined(b), combined(a))

\* slice::sort_by is stable: r goes before the first element it is Less than
RECURSIVE insert_sorted(_, _)
insert_sorted(r, sorted) ==
    IF sorted = <<>> THEN <<r>>
    ELSE IF compare(r, Head(sorted)) = "Less"
         THEN <<r>> \o sorted
         ELSE <<Head(sorted)>> \o insert_sorted(r, Tail(sorted))

RECURSIVE sort_by(_, _)
sort_by(rs, sorted) ==
    IF rs = <<>> THEN sorted
    ELSE sort_by(Tail(rs), insert_sorted(Head(rs), sorted))

\* Iterator::take(top_k)
take(rs, k) == SubSeq(rs, 1, IF k < Len(rs) THEN k ELSE Len(rs))

SearchInit ==
    /\ engine_docs = <<>>
    /\ use_quantum_score = TRUE
    /\ use_persistence_score = TRUE
    /\ searchState = "none"
    /\ searchTopK = 0
    /\ scored = <<>>
    /\ results = <<>>

\* the value the last search returned is no longer observed
ClearResults ==
    /\ searchState' = "none"
    /\ searchTopK' = 0
    /\ scored' = <<>>
    /\ results' = <<>>

TokenizerAfter(st) ==
    /\ token_to_prime' = st.ttp
    /\ prime_to_token' = st.ptt
    /\ current_prime' = st.cur
    /\ primal_generator' = st.gen
    /\ UNCHANGED tokObserved

\* add_crawled_document: the text is tokenized, a text without tokens is not
\* indexed
IndexDocument(path, text) ==
    /\ Len(engine_docs) < MaxIndexed
    /\ LET st == tokenize(text) IN
          /\ TokenizerAfter(st)
          /\ engine_docs' = IF st.out = <<>> THEN engine_docs
                            ELSE Append(engine_docs, path)
    /\ ClearResults
    /\ UNCHANGED <<use_quantum_score, use_persistence_score>>

set_use_quantum_score(enable) ==
    /\ use_quantum_score' = enable
    /\ ClearResults
    /\ UNCHANGED <<engine_docs, use_persistence_score>>
    /\ UNCHANGED tokVars

set_use_persistence_score(enable) ==
    /\ use_persistence_score' = enable
    /\ ClearResults
    /\ UNCHANGED <<engine_docs, use_quantum_score>>
    /\ UNCHANGED tokVars

\* search(query, top_k) with no token in the query
SearchEmptyQuery(query, top_k) ==
    /\ LET st == tokenize(query) IN
          /\ st.out = <<>>
          /\ TokenizerAfter(st)
    /\ searchState' = "empty_query"
    /\ searchTopK' = top_k
    /\ scored' = <<>>
    /\ results' = <<>>
    /\ UNCHANGED <<engine_docs, use_quantum_score, use_persistence_score>>

\* search(query, top_k): score every document, sort, take top_k
Search(query, top_k, triples) ==
    /\ LET st == tokenize(query) IN
          /\ st.out # <<>>
          /\ TokenizerAfter(st)
    /\ searchState' = "done"
    /\ searchTopK' = top_k
    /\ scored' = score_all(triples)
    /\ results' = take(sort_by(score_all(triples), <<>>), top_k)
    /\ UNCHANGED <<engine_docs, use_quantum_score, use_persistence_score>>

SearchNext ==
    \/ \E path \in {"u"}, text \in SearchTexts : IndexDocument(path, text)
    \/ \E enable \in BOOLEAN : set_use_quantum_score(enable)
    \/ \E enable \in BOOLEAN : set_use_persistence_score(enable)
    \/ \E query \in SearchTexts, top_k \in 0..MaxTopK :
          SearchEmptyQuery(query, top_k)
    \/ \E query \in SearchTexts, top_k \in 0..MaxTopK :
          \E triples \in [1..Len(engine_docs) -> ScoreTriples] :
              Search(query, top_k, triples)

(***************************************************************************)
(* Floating point.  An f64 is modelled as a binary floating-point number   *)
(* with a significand of MantBits bits, held as an integer count of grid   *)
(* units of 2^-GridBits (below 2^(MantBits-GridBits) the spacing is one    *)
(* grid unit, as for subnormals).  Every operation returns the exact       *)
(* result rounded to the nearest such number, ties to even, as IEEE 754    *)
(* arithmetic does, so that sums depend on the order of their terms.       *)
(***************************************************************************)
MantBits == 7
GridBits == 12

Pow2(k) == 2 ^ k

\* 1.0
One == Pow2(GridBits)

\* n/d grid units (d > 0) rounded to the nearest float, ties to even
Round(n, d) ==
    LET m == IF n < 0 THEN 0 - n ELSE n
        RECURSIVE UlpExp(_)
        UlpExp(k) == IF m < d * Pow2(MantBits + k) THEN k ELSE UlpExp(k + 1)
        u == Pow2(UlpExp(0))
        q == m \div (d * u)
        r == m % (d * u)
        rounded == IF 2 * r < d * u THEN q
                   ELSE IF 2 * r > d * u THEN q + 1
                   ELSE IF q % 2 = 0 THEN q ELSE q + 1
    IN  IF n < 0 THEN 0 - u * rounded ELSE u * rounded

\* an integer as f64
FromInt(n) == Round(n * One, 1)

fadd(x, y) == Round(x + y, 1)

fsub(x, y) == Round(x - y, 1)

fmul(x, y) == Round(x * y, One)

fdiv(x, y) == Round(x * One, y)

\* f64::sqrt: the float nearest the square root
fsqrt(x) ==
    LET n == x * One
        RECURSIVE Isqrt(_, _)
        Isqrt(lo, hi) ==
            IF lo = hi THEN lo
            ELSE LET mid == (lo + hi + 1) \div 2 IN
                 IF mid * mid <= n THEN Isqrt(mid, hi) ELSE Isqrt(lo, mid - 1)
        s == Isqrt(0, 46340)
        RECURSIVE UlpExp(_)
        UlpExp(k) == IF s < Pow2(MantBits + k) THEN k ELSE UlpExp(k + 1)
        u == Pow2(UlpExp(0))
        lo == (s \div u) * u
        mid4 == (2 * lo + u) * (2 * lo + u)
    IN  IF 4 * n < mid4 THEN lo
        ELSE IF 4 * n > mid4 THEN lo + u
        ELSE IF (lo \div u) % 2 = 0 THEN lo ELSE lo + u

(***************************************************************************)
(* Prime vectors.  A PrimeVector is a function from primes to weights.     *)
(* Iterating a HashMap or HashSet visits its keys in an order that the     *)
(* hasher's random seed decides: wherever a sum is taken in iteration      *)
(* order, every order is possible.                                         *)
(***************************************************************************)
MaxTokens == 4

PrimeSeqs == SeqsUpTo({3, 5, 7}, MaxTokens)

\* one sequence for each multiset of primes
SortedPrimeSeqs ==
    {s \in PrimeSeqs : \A i, j \in 1..Len(s) : i < j => s[i] <= s[j]}

\* the sequences that list the elements of a set, each once
Orders(S) ==
    {o \in [1..Cardinality(S) -> S] : \A i, j \in 1..Cardinality(S) : o[i] = o[j] => i = j}

\* the occurrence count of each prime of a sequence
Counts(primes) ==
    [p \in Range(primes) |-> Cardinality({i \in 1..Len(primes) : primes[i] = p})]

RECURSIVE SumOver(_, _)
SumOver(f, S) ==
    IF S = {} THEN 0
    ELSE LET x == CHOOSE y \in S : TRUE IN f[x] + SumOver(f, S \ {x})

\* a norm that is always 1.0
norm_one(counts) == One

\* the L2 norm of the counts; the squares are integers and sum exactly
norm_of(counts) ==
    fsqrt(FromInt(SumOver([p \in DOMAIN counts |-> counts[p] * counts[p]], DOMAIN counts)))

\* build_vector(primes)
build_vector(primes) ==
    IF primes = <<>> THEN EmptyMap
    ELSE LET counts == Counts(primes)
             norm == norm_of(counts)
         IN  IF norm > 0 THEN [p \in DOMAIN counts |-> fdiv(FromInt(counts[p]), norm)]
             ELSE EmptyMap

\* the running sum of terms added to 0.0 in the given order
RECURSIVE sum_in_order(_, _, _)
sum_in_order(term, order, acc) ==
    IF order = <<>> THEN acc
    ELSE sum_in_order(term, Tail(order), fadd(acc, term[Head(order)]))

\* a product that counts only the keys of the first vector
dot_product_left_keys(vec1, vec2) ==
    LET term == [key \in DOMAIN vec1 |->
                    fmul(vec1[key], IF key \in DOMAIN vec2 THEN One ELSE 0)]
    IN  {sum_in_order(term, o, 0) : o \in Orders(DOMAIN vec1)}

\* dot_product(vec1, vec2): the values it can return.  keys1.union(&keys2)
\* yields the keys of vec1 in some order, then the other keys of vec2.
dot_product(vec1, vec2) ==
    LET keys1 == DOMAIN vec1
        rest == DOMAIN vec2 \ keys1
        term == [key \in keys1 \cup rest |->
                    fmul(IF key \in DOMAIN vec1 THEN vec1[key] ELSE 0,
                         IF key \in DOMAIN vec2 THEN vec2[key] ELSE 0)]
    IN  {sum_in_order(term, o1 \o o2, 0) : o1 \in Orders(keys1), o2 \in Orders(rest)}

VecInit ==
    /\ primesA = <<>>
    /\ primesB = <<>>
    /\ vectorA = EmptyMap
    /\ vectorB = EmptyMap
    /\ dotAB = 0
    /\ dotBA = 0
    /\ dotAA = 0
    /\ vecPc = "none"

\* two calls of build_vector
BuildVectors(a, b) ==
    /\ vecPc = "none"
    /\ primesA' = a
    /\ primesB' = b
    /\ vectorA' = build_vector(a)
    /\ vectorB' = build_vector(b)
    /\ dotAB' = 0
    /\ dotBA' = 0
    /\ dotAA' = 0
    /\ vecPc' = "built"

\* three calls of dot_product on the vectors built
DotProducts ==
    /\ vecPc = "built"
    /\ dotAB' \in dot_product(vectorA, vectorB)
    /\ dotBA' \in dot_product(vectorB, vectorA)
    /\ dotAA' \in dot_product(vectorA, vectorA)
    /\ vecPc' = "multiplied"
    /\ UNCHANGED <<primesA, primesB, vectorA, vectorB>>

VecNext ==
    \/ vecPc = "none" /\ \E a \in PrimeSeqs : BuildVectors(a, a)
    \/ vecPc = "none" /\ \E a, b \in SortedPrimeSeqs : BuildVectors(a, b)
    \/ DotProducts

(***************************************************************************)
(* The mutexes.  The worker's code as the sequence of its lock             *)
(* acquisitions, guard drops, guarded accesses and awaits, each step with  *)
(* the steps that can follow it.  A std Mutex guard is dropped at the end  *)
(* of its block (or at a continue or break inside it); guards of one block *)
(* are dropped in reverse order of declaration.  A worker at an await step *)
(* is suspended there.  Steps of different workers interleave freely,      *)
(* which covers the single-task polling of for_each_concurrent.            *)
(***************************************************************************)
LockStepOf(op, on, next) == [op |-> op, on |-> on, next |-> next]

\* the loop of a worker in crawl()
worker_loop ==
    [budget_lock   |-> LockStepOf("lock", "visited_urls", {"budget_unlock"}),
     budget_unlock |-> LockStepOf("unlock", "visited_urls", {"pop_lock", "stopped"}),
     pop_lock      |-> LockStepOf("lock", "url_queue", {"pop_unlock"}),
     pop_unlock    |-> LockStepOf("unlock", "url_queue", {"seen_lock", "idle_sleep"}),
     seen_lock     |-> LockStepOf("lock", "visited_urls", {"seen_unlock"}),
     seen_unlock   |-> LockStepOf("unlock", "visited_urls", {"budget_lock", "mark_lock"}),
     mark_lock     |-> LockStepOf("lock", "visited_urls", {"mark_unlock"}),
     mark_unlock   |-> LockStepOf("unlock", "visited_urls",
                                  {"budget_lock", "rate_lock", "jitter_sleep"}),
     jitter_sleep  |-> LockStepOf("await", "sleep", {"fetch_pause"}),
     send          |-> LockStepOf("await", "channel", {"budget_lock"}),
     idle_sleep    |-> LockStepOf("await", "sleep", {"idle_lock"}),
     idle_lock     |-> LockStepOf("lock", "url_queue", {"idle_unlock"}),
     idle_unlock   |-> LockStepOf("unlock", "url_queue", {"budget_lock", "stopped"}),
     stopped       |-> LockStepOf("end", "", {})]

\* a limiter that keeps its guard over the sleep and the write
respect_rate_limits_one_guard ==
    [rate_lock    |-> LockStepOf("lock", "domain_timestamps", {"rate_read"}),
     rate_read    |-> LockStepOf("read", "domain_timestamps", {"rate_sleep", "stamp_write"}),
     rate_sleep   |-> LockStepOf("await", "sleep", {"stamp_write"}),
     stamp_write  |-> LockStepOf("write", "domain_timestamps", {"stamp_unlock"}),
     stamp_unlock |-> LockStepOf("unlock", "domain_timestamps", {"jitter_sleep"})]

respect_rate_limits ==
    [rate_lock    |-> LockStepOf("lock", "domain_timestamps", {"rate_read"}),
     rate_read    |-> LockStepOf("read", "domain_timestamps", {"rate_unlock"}),
     rate_unlock  |-> LockStepOf("unlock", "domain_timestamps", {"rate_sleep", "stamp_lock"}),
     rate_sleep   |-> LockStepOf("await", "sleep", {"stamp_lock"}),
     stamp_lock   |-> LockStepOf("lock", "domain_timestamps", {"stamp_write"}),
     stamp_write  |-> LockStepOf("write", "domain_timestamps", {"stamp_unlock"}),
     stamp_unlock |-> LockStepOf("unlock", "domain_timestamps", {"jitter_sleep"})]

fetch_and_process_url ==
    [fetch_pause          |-> LockStepOf("await", "sleep", {"request"}),
     request              |-> LockStepOf("await", "network", {"budget_lock", "body"}),
     body                 |-> LockStepOf("await", "network",
                                         {"budget_lock", "links_visited_lock", "send"}),
     links_visited_lock   |-> LockStepOf("lock", "visited_urls", {"links_queue_lock"}),
     links_queue_lock     |-> LockStepOf("lock", "url_queue", {"links_queue_unlock"}),
     links_queue_unlock   |-> LockStepOf("unlock", "url_queue", {"links_visited_unlock"}),
     links_visited_unlock |-> LockStepOf("unlock", "visited_urls", {"send"})]

Program == worker_loop @@ respect_rate_limits @@ fetch_and_process_url

LockInit ==
    /\ at = [w \in Workers |-> "budget_lock"]
    /\ held = [w \in Workers |-> {}]
    /\ rateOps = [w \in Workers |-> <<>>]

\* what the step adds to the record of the limiter: cleared at the loop top
RateOpsAfter(w, step, to) ==
    IF to = "budget_lock" THEN <<>>
    ELSE IF at[w] \in DOMAIN respect_rate_limits
         THEN Append(rateOps[w], step.op)
         ELSE rateOps[w]

\* lock() returns when no worker holds the mutex; a guard is dropped; the
\* data behind a mutex is read or written
LockStep(w) ==
    LET step == Program[at[w]] IN
    /\ step.op \in {"lock", "unlock", "read", "write"}
    /\ step.op = "lock" => \A v \in Workers : step.on \notin held[v]
    /\ held' = [held EXCEPT ![w] =
                   CASE step.op = "lock" -> @ \cup {step.on}
                     [] step.op = "unlock" -> @ \ {step.on}
                     [] OTHER -> @]
    /\ \E to \in step.next :
          /\ at' = [at EXCEPT ![w] = to]
          /\ rateOps' = [rateOps EXCEPT ![w] = RateOpsAfter(w, step, to)]

\* the future of the worker is resumed after its await
Await(w) ==
    LET step == Program[at[w]] IN
    /\ step.op = "await"
    /\ \E to \in step.next :
          /\ at' = [at EXCEPT ![w] = to]
          /\ rateOps' = [rateOps EXCEPT ![w] = RateOpsAfter(w, step, to)]
    /\ UNCHANGED held

LockNext ==
    \/ \E w \in Workers : LockStep(w)
    \/ \E w \in Workers : Await(w)

(***************************************************************************)
(* The engine with its vectors, scoring by the standard score alone: the   *)
(* state after ResonantEngine::new(), set_use_quantum_score(false) and     *)
(* set_use_persistence_score(false).  A document is held by its url, text, *)
(* vector, entropy, timestamp, reversibility, historical vectors and       *)
(* compressed text (title, biorthogonal vector and buffering are set once  *)
(* and read by the optional scores alone); a dense vector is held by its   *)
(* non-zero entries.  Times are seconds.                                   *)
(***************************************************************************)
MaxEngineDocs == 2
MaxEngineCalls == 2

CrawledDocuments ==
    {[url |-> <<"A">>, text |-> <<"r", "u", "s", "t", " ", "p", "r", "o", "g", "r",
                        "a", "m", "m", "i", "n", "g", " ", "l", "a", "n",
                        "g", "u", "a", "g", "e">>],
     [url |-> <<"B">>, text |-> <<"m", "o", "d", "u", "l", "a", "r", " ", "s", "y",
                        "n", "t", "h", "e", "s", "i", "z", "e", "r", " ",
                        "e", "u", "r", "o", "r", "a", "c", "k">>],
     [url |-> <<"C">>, text |-> <<" ", "!", " ">>]}

Queries ==
    {<<"r", "u", "s", "t", " ", "p", "r", "o", "g", "r", "a", "m", "m",
       "i", "n", "g">>,
     <<"?">>}

\* SystemTime::now() at the calls
EngineTimes == {0, 200000}

\* f64::log2 of a positive float: exponent and nine fraction bits by repeated
\* squaring, rounded
flog2(x) ==
    LET RECURSIVE Exponent(_)
        Exponent(e) == IF x < Pow2(e + GridBits + 1) THEN e ELSE Exponent(e + 1)
        e == Exponent(0 - GridBits)
        y0 == IF e >= 0 THEN (4 * x) \div Pow2(e) ELSE 4 * x * Pow2(0 - e)
        RECURSIVE Fraction(_, _, _)
        Fraction(y, k, acc) ==
            IF k = 0 THEN acc
            ELSE LET y2 == (y * y) \div Pow2(GridBits + 2) IN
                 IF y2 >= Pow2(GridBits + 3)
                 THEN Fraction(y2 \div 2, k - 1, 2 * acc + 1)
                 ELSE Fraction(y2, k - 1, 2 * acc)
    IN  Round(e * One + Fraction(y0, 9, 0) * Pow2(GridBits - 9), 1)

\* shannon_entropy(primes): the values it can return, the terms being
\* subtracted in the iteration order of counts.values()
shannon_entropy(primes) ==
    IF primes = <<>> THEN {0}
    ELSE LET counts == Counts(primes)
             total_count == FromInt(Len(primes))
             term == [c \in DOMAIN counts |->
                         LET p == fdiv(FromInt(counts[c]), total_count)
                         IN  0 - fmul(p, flog2(p))]
         IN  {sum_in_order(term, o, 0) : o \in Orders(DOMAIN counts)}

\* to_dense_vector(vector, dimension)
to_dense_vector(vector, dimension) ==
    [prime \in {q \in DOMAIN vector : q < dimension} |-> vector[prime]]

\* calculate_reversibility(doc_vector, historical_vectors), with
\* mutual_information summing over the indices in increasing order
calculate_reversibility(doc_vector, historical_vectors) ==
    LET Ascending(S) ==
            CHOOSE o \in Orders(S) : \A i, j \in 1..Len(o) : i < j => o[i] < o[j]
        entropy_of(p) ==
            sum_in_order([i \in DOMAIN p |-> 0 - fmul(p[i], flog2(p[i]))],
                         Ascending({i \in DOMAIN p : p[i] > 0}), 0)
        mutual_information(p1, p2) ==
            LET joint_p == [i \in DOMAIN p1 \cap DOMAIN p2 |-> fmul(p1[i], p2[i])]
            IN  fsub(fadd(entropy_of(p1), entropy_of(p2)), entropy_of(joint_p))
        informations ==
            [k \in 1..Len(historical_vectors) |->
                mutual_information(doc_vector, historical_vectors[k])]
    IN  IF historical_vectors = <<>> THEN One
        ELSE fdiv(sum_in_order(informations,
                               [k \in 1..Len(historical_vectors) |-> k], 0),
                  FromInt(Len(historical_vectors)))

\* resonance - delta_entropy * self.entropy_weight, entropy_weight being 0.1
standard_score_resonance_only(resonance, delta_entropy) == resonance

standard_score(resonance, delta_entropy) ==
    LET entropy_weight == Round(One, 10)
    IN  fsub(resonance, fmul(delta_entropy, entropy_weight))

\* Option<Vec<u8>>
None == <<>>

Some(x) == <<x>>

\* the output of GzEncoder for a text, and what GzDecoder reads from it
gzip(text) == [gzip |-> text]

gunzip(bytes) == bytes.gzip

\* IndexedDocument::compress_text
compress_text(d) ==
    IF d.text # <<>> /\ d.compressed_text = None
    THEN [d EXCEPT !.compressed_text = Some(gzip(d.text)), !.text = <<>>]
    ELSE d

\* IndexedDocument::decompress_text, which get_snippet calls
decompress_text(d) ==
    IF d.text = <<>> /\ d.compressed_text # None
    THEN [d EXCEPT !.text = gunzip(d.compressed_text[1])]
    ELSE d

\* a document that starts without a historical vector
new_document_no_history(d, tokens, entropy, now) ==
    [url |-> d.url, text |-> d.text, vector |-> build_vector(tokens),
     entropy |-> entropy, timestamp |-> now, reversibility |-> One,
     historical_vectors |-> <<>>, compressed_text |-> None]

\* the IndexedDocument add_crawled_document pushes
new_document(d, tokens, entropy, now) ==
    [url |-> d.url, text |-> d.text, vector |-> build_vector(tokens),
     entropy |-> entropy, timestamp |-> now, reversibility |-> One,
     historical_vectors |-> <<to_dense_vector(build_vector(tokens), 1000)>>,
     compressed_text |-> None]

\* an update that treats a document alone in the store like the others
update_document_relationships_unguarded(ds) ==
    LET all_vectors == [i \in 1..Len(ds) |-> to_dense_vector(ds[i].vector, 1000)]
        others_vectors(i) ==
            [j \in 1..(Len(ds) - 1) |-> all_vectors[IF j < i THEN j ELSE j + 1]]
    IN  [i \in 1..Len(ds) |->
            [ds[i] EXCEPT
                !.reversibility =
                    calculate_reversibility(all_vectors[i], others_vectors(i)),
                !.historical_vectors =
                    IF Len(@) < 5 THEN Append(@, all_vectors[i]) ELSE @]]

\* update_document_relationships on a store
update_document_relationships(ds) ==
    LET all_vectors == [i \in 1..Len(ds) |-> to_dense_vector(ds[i].vector, 1000)]
        others_vectors(i) ==
            [j \in 1..(Len(ds) - 1) |-> all_vectors[IF j < i THEN j ELSE j + 1]]
    IN  [i \in 1..Len(ds) |->
            IF others_vectors(i) = <<>> THEN ds[i]
            ELSE [ds[i] EXCEPT
                     !.reversibility =
                         calculate_reversibility(all_vectors[i], others_vectors(i)),
                     !.historical_vectors =
                         IF Len(@) < 5 THEN Append(@, all_vectors[i]) ELSE @]]

EngineInit ==
    /\ engine_docs = <<>>
    /\ use_quantum_score = FALSE
    /\ use_persistence_score = FALSE
    /\ searchState = "none"
    /\ searchTopK = 0
    /\ scored = <<>>
    /\ results = <<>>
    /\ indexed_docs = <<>>
    /\ freshDocs = {}
    /\ lastCall = [op |-> "none"]
    /\ engCalls = 0

EngineOff ==
    /\ indexed_docs = <<>>
    /\ freshDocs = {}
    /\ lastCall = [op |-> "none"]
    /\ engCalls = 0

\* SystemTime::now() is not before the timestamps it gave earlier
NotBefore(now) == \A i \in 1..Len(indexed_docs) : indexed_docs[i].timestamp <= now

\* the process has not panicked
Alive == lastCall.op # "panic"

\* an add that indexes a text without tokens too
AddCrawledDocumentAlways(d, now) ==
    /\ Len(indexed_docs) < MaxEngineDocs
    /\ NotBefore(now)
    /\ \E st \in {tokenize(d.text)} :
          /\ TokenizerAfter(st)
          /\ \E entropy \in shannon_entropy(st.out) :
                indexed_docs' = Append(indexed_docs, new_document(d, st.out, entropy, now))
          /\ freshDocs' = freshDocs \cup {Len(indexed_docs) + 1}
          /\ engine_docs' = Append(engine_docs, d.url)
    /\ lastCall' = [op |-> "add", text |-> d.text]
    /\ ClearResults
    /\ UNCHANGED <<use_quantum_score, use_persistence_score, engCalls>>

\* add_crawled_document(doc)
AddCrawledDocument(d, now) ==
    /\ Len(indexed_docs) < MaxEngineDocs
    /\ NotBefore(now)
    /\ \E st \in {tokenize(d.text)} :
          /\ TokenizerAfter(st)
          /\ IF st.out = <<>>
             THEN UNCHANGED <<indexed_docs, freshDocs, engine_docs>>
             ELSE /\ \E entropy \in shannon_entropy(st.out) :
                        indexed_docs' =
                            Append(indexed_docs, new_document(d, st.out, entropy, now))
                  /\ freshDocs' = freshDocs \cup {Len(indexed_docs) + 1}
                  /\ engine_docs' = Append(engine_docs, d.url)
    /\ lastCall' = [op |-> "add", text |-> d.text]
    /\ ClearResults
    /\ UNCHANGED <<use_quantum_score, use_persistence_score, engCalls>>

\* a test of the query tokens that lets every query through
is_empty_never(query_tokens) == FALSE

\* query_tokens.is_empty()
is_empty(query_tokens) == query_tokens = <<>>

\* search(query, top_k) with both optional scores off, top_k being one of
\* top_ks: the relationships are updated first, an empty query returns no
\* result, otherwise every document is scored and its text decompressed for
\* the snippet, the results sorted and cut
EngineSearch(query, top_ks) ==
    /\ engCalls' = engCalls + 1
    /\ freshDocs' = {}
    /\ ~use_quantum_score /\ ~use_persistence_score
    /\ \E st \in {tokenize(query)} :
       \E updated \in {update_document_relationships(indexed_docs)} :
       \E query_vec \in {build_vector(st.out)} :
       \E resonances \in {[i \in 1..Len(indexed_docs) |->
                              dot_product(query_vec, indexed_docs[i].vector)]} :
           /\ TokenizerAfter(st)
           /\ IF is_empty(st.out)
              THEN /\ indexed_docs' = updated
                   /\ searchState' = "empty_query"
                   /\ scored' = <<>>
                   /\ results' = <<>>
                   /\ lastCall' = [op |-> "search", text |-> query]
                   /\ searchTopK' \in top_ks
              ELSE \E query_entropy \in shannon_entropy(st.out) :
                   \E resonance \in [1..Len(indexed_docs) ->
                                        UNION {resonances[i] : i \in 1..Len(indexed_docs)}] :
                      /\ \A i \in 1..Len(indexed_docs) : resonance[i] \in resonances[i]
                      /\ indexed_docs' =
                            [i \in 1..Len(updated) |-> decompress_text(updated[i])]
                      /\ searchState' = "done"
                      /\ lastCall' = [op |-> "search", text |-> query,
                                      query_vec |-> query_vec,
                                      query_entropy |-> query_entropy]
                      /\ scored' =
                            [i \in 1..Len(indexed_docs) |->
                                LET diff == fsub(indexed_docs[i].entropy, query_entropy)
                                    delta_entropy == IF diff < 0 THEN 0 - diff ELSE diff
                                IN  [doc |-> i,
                                     path |-> indexed_docs[i].url,
                                     resonance |-> resonance[i],
                                     delta_entropy |-> delta_entropy,
                                     score |-> standard_score(resonance[i], delta_entropy),
                                     quantum_score |-> 0,
                                     persistence_score |-> 0]]
                      /\ \E top_k \in top_ks :
                            /\ searchTopK' = top_k
                            /\ results' = take(sort_by(scored', <<>>), top_k)
    /\ UNCHANGED <<engine_docs, use_quantum_score, use_persistence_score>>

\* a u64 holds TimeBits bits here
TimeBits == 20

\* u64 subtraction as a release build does it
wrapping_sub(a, b) == (a - b) % Pow2(TimeBits)

\* the builds: a - b with a < b panics in a debug build (overflow checks)
\* and wraps in a release build
Builds == {"debug", "release"}

\* a test of the resonance that every document passes
resonates_always(resonance) == TRUE

\* resonance > 0.1
resonates(resonance) == resonance > Round(One, 10)

\* a jump that pushes onto a full history without removing an entry
jumped_without_eviction(d, resonance, importance, now) ==
    IF resonates(resonance)
    THEN [d EXCEPT
             !.historical_vectors = Append(@, to_dense_vector(d.vector, 1000)),
             !.reversibility =
                 fadd(fmul(@, Round(9 * One, 10)),
                      fmul(Round(One, 10), fmul(resonance, importance))),
             !.timestamp =
                 IF wrapping_sub(now, @) > 24 * 3600
                 THEN wrapping_sub(now, wrapping_sub(now, @) \div 2)
                 ELSE @]
    ELSE d

\* the body of the loop of apply_quantum_jump for one document: a document
\* that resonates with the query gets its vector appended to its history
\* (the oldest removed when it holds five), its reversibility blended, and a
\* timestamp older than a day moved halfway to now
jumped(d, resonance, importance, now) ==
    IF resonates(resonance)
    THEN [d EXCEPT
             !.historical_vectors =
                 IF Len(@) < 5
                 THEN Append(@, to_dense_vector(d.vector, 1000))
                 ELSE IF @ # <<>>
                      THEN Append(Tail(@), to_dense_vector(d.vector, 1000))
                      ELSE @,
             !.reversibility =
                 fadd(fmul(@, Round(9 * One, 10)),
                      fmul(Round(One, 10), fmul(resonance, importance))),
             !.timestamp =
                 IF wrapping_sub(now, @) > 24 * 3600
                 THEN wrapping_sub(now, wrapping_sub(now, @) \div 2)
                 ELSE @]
    ELSE d

\* now - doc.timestamp is evaluated and overflows
overflows(d, resonance, now) == resonates(resonance) /\ now < d.timestamp

\* apply_quantum_jump(query, importance) with SystemTime::now() returning now
\* and the given build: the loop runs over the store in order, and in a
\* debug build stops with a panic at the first subtraction that overflows
apply_quantum_jump(query, importance, now, build) ==
    /\ engCalls' = engCalls + 1
    /\ freshDocs' = {}
    /\ \E st \in {tokenize(query)} :
       \E query_vec \in {build_vector(st.out)} :
       \E resonances \in {[i \in 1..Len(indexed_docs) |->
                              dot_product(query_vec, indexed_docs[i].vector)]} :
           /\ TokenizerAfter(st)
           /\ IF st.out = <<>>
              THEN /\ UNCHANGED indexed_docs
                   /\ lastCall' = [op |-> "jump", text |-> query, evicted |-> {}]
              ELSE \E resonance \in [1..Len(indexed_docs) ->
                                        UNION {resonances[i] : i \in 1..Len(indexed_docs)}] :
                      LET panics == {i \in 1..Len(indexed_docs) :
                                        /\ build = "debug"
                                        /\ overflows(indexed_docs[i], resonance[i], now)}
                          reached(i) == \A k \in panics : i < k
                      IN  /\ \A i \in 1..Len(indexed_docs) : resonance[i] \in resonances[i]
                          /\ indexed_docs' =
                                [i \in 1..Len(indexed_docs) |->
                                    IF reached(i)
                                    THEN jumped(indexed_docs[i], resonance[i],
                                                importance, now)
                                    ELSE indexed_docs[i]]
                          /\ lastCall' =
                                [op |-> IF panics = {} THEN "jump" ELSE "panic",
                                 text |-> query,
                                 evicted |->
                                     {i \in 1..Len(indexed_docs) :
                                         /\ reached(i)
                                         /\ resonates(resonance[i])
                                         /\ Len(indexed_docs[i].historical_vectors) = 5}]
    /\ ClearResults
    /\ UNCHANGED <<engine_docs, use_quantum_score, use_persistence_score>>

EngineNext ==
    \/ \E d \in CrawledDocuments, now \in EngineTimes :
          Alive /\ AddCrawledDocument(d, now)
    \/ \E query \in Queries :
          /\ Alive /\ engCalls < MaxEngineCalls
          /\ EngineSearch(query, {1, MaxEngineDocs})
    \/ \E query \in Queries, now \in EngineTimes :
          /\ Alive /\ engCalls < MaxEngineCalls
          /\ NotBefore(now)
          /\ apply_quantum_jump(query, Round(2 * One, 10), now, "release")

\* the text process_checkpoint_line tokenizes for every record
Placeholder == <<"p", "l", "a", "c", "e", "h", "o", "l", "d", "e", "r">>

\* the IndexedDocument process_checkpoint_line pushes for a record; the f64
\* fields are the floats nearest to the decimals of the file
placeholder_document(r, tokens) ==
    [url |-> r.path, text |-> <<>>, vector |-> build_vector(tokens),
     entropy |-> Round(r.entropy * One, 10), timestamp |-> r.timestamp,
     reversibility |-> Round(r.reversibility * One, 10),
     historical_vectors |-> <<to_dense_vector(build_vector(tokens), 1000)>>,
     compressed_text |-> None]

\* the checkpoint files loaded into the engine: a record of the url A, the
\* same followed by a line of four fields, and a line of four fields alone
StoreFiles ==
    {<<"#", Newline, "A", Tab, "A", Tab, "1", ".", "5", Tab, "0", ".", "5",
       Tab, "1", "2", Newline>>,
     <<"#", Newline, "A", Tab, "A", Tab, "1", ".", "5", Tab, "0", ".", "5",
       Tab, "1", "2", Newline, "B", Tab, "B", Tab, "0", Tab, "1", Newline>>,
     <<"B", Tab, "B", Tab, "0", Tab, "1", Newline>>}

\* load_checkpoint(path) on the engine, the file holding content: every
\* record pushes a placeholder until a line fails; the placeholders are
\* built from the tokens of "placeholder", which the first record makes known
\* to the tokenizer
EngineLoadCheckpoint(content) ==
    /\ \E r \in {process_lines(skip_header(lines(content)), <<>>)} :
       \E st \in {tokenize(Placeholder)} :
          /\ Len(indexed_docs) + Len(r.docs) <= MaxEngineDocs
          /\ IF r.docs = <<>>
             THEN UNCHANGED <<token_to_prime, prime_to_token, current_prime,
                              primal_generator, tokObserved>>
             ELSE TokenizerAfter(st)
          /\ indexed_docs' =
                indexed_docs \o
                    [k \in 1..Len(r.docs) |-> placeholder_document(r.docs[k], st.out)]
          /\ engine_docs' = engine_docs \o [k \in 1..Len(r.docs) |-> r.docs[k].path]
          /\ lastCall' = [op |-> "load", text |-> content, ok |-> r.ok,
                          len |-> Len(indexed_docs)]
    /\ ClearResults
    /\ UNCHANGED <<freshDocs, engCalls, use_quantum_score, use_persistence_score>>

\* compress_all_documents()
compress_all_documents ==
    /\ indexed_docs' = [i \in 1..Len(indexed_docs) |-> compress_text(indexed_docs[i])]
    /\ lastCall' = [op |-> "compress"]
    /\ ClearResults
    /\ UNCHANGED <<freshDocs, engCalls, engine_docs, use_quantum_score,
                   use_persistence_score, tokVars>>

\* the engine with its texts compressed: documents added, searches and
\* compress_all_documents in any order
CompressNext ==
    \/ \E d \in CrawledDocuments, now \in EngineTimes :
          AddCrawledDocument(d, now)
    \/ \E query \in Queries :
          engCalls < MaxEngineCalls /\ EngineSearch(query, {MaxEngineDocs})
    \/ compress_all_documents

\* the engine with checkpoints loaded into it, and a clock that can be
\* behind a timestamp
StoreNext ==
    \/ \E d \in {c \in CrawledDocuments : c.url = <<"A">>}, now \in EngineTimes :
          Alive /\ AddCrawledDocument(d, now)
    \/ \E content \in StoreFiles :
          Alive /\ EngineLoadCheckpoint(content)
    \/ \E query \in Queries :
          /\ Alive /\ engCalls < MaxEngineCalls
          /\ EngineSearch(query, {MaxEngineDocs})
    \/ \E query \in Queries, now \in EngineTimes :
          /\ Alive /\ engCalls < MaxEngineCalls
          /\ \E build \in IF NotBefore(now) THEN {"release"} ELSE Builds :
                apply_quantum_jump(query, Round(2 * One, 10), now, build)

\* the calls of search and apply_quantum_jump in a run that fills a history
MaxHistoryCalls == 5

\* the engine over runs long enough to fill a history of five: the first
\* two documents added, the record of a checkpoint loaded, searches and
\* jumps for the query with tokens, the clock standing at its last time
HistoryNext ==
    \/ \E d \in {c \in CrawledDocuments : c.url # <<"C">>}, now \in EngineTimes :
          /\ \A t \in EngineTimes : t <= now
          /\ AddCrawledDocument(d, now)
    \/ \E content \in {f \in StoreFiles : Len(lines(f)) = 2} :
          EngineLoadCheckpoint(content)
    \/ \E query \in {q \in Queries : tokenize(q).out # <<>>} :
          /\ engCalls < MaxHistoryCalls
          /\ EngineSearch(query, {MaxEngineDocs})
    \/ \E query \in {q \in Queries : tokenize(q).out # <<>>}, now \in EngineTimes :
          /\ \A t \in EngineTimes : t <= now
          /\ engCalls < MaxHistoryCalls
          /\ apply_quantum_jump(query, Round(2 * One, 10), now, "release")

\* the queries of the jumps on a store with placeholders: those of the
\* searches and the word the placeholders are made of
ClockQueries == Queries \cup {Placeholder}

\* the engine under a clock that can be behind a timestamp: documents
\* added, checkpoints loaded, and jumps
ClockNext ==
    \/ \E d \in {c \in CrawledDocuments : c.url = <<"A">>}, now \in EngineTimes :
          Alive /\ AddCrawledDocument(d, now)
    \/ \E content \in StoreFiles :
          Alive /\ EngineLoadCheckpoint(content)
    \/ \E query \in ClockQueries, now \in EngineTimes :
          /\ Alive /\ engCalls < MaxEngineCalls
          /\ \E build \in IF NotBefore(now) THEN {"release"} ELSE Builds :
                apply_quantum_jump(query, Round(2 * One, 10), now, build)

(***************************************************************************)
(* The persistence score.  Its arguments can be any f64, so a value here   *)
(* is a record: a finite number with its sign bit and its magnitude in     *)
(* grid units, an infinity with its sign, or NaN.                          *)
(***************************************************************************)
Fin(x) == [kind |-> "fin", neg |-> x < 0, mag |-> IF x < 0 THEN 0 - x ELSE x]

NegZero == [kind |-> "fin", neg |-> TRUE, mag |-> 0]

Inf(neg) == [kind |-> "inf", neg |-> neg, mag |-> 0]

NaN == [kind |-> "nan", neg |-> FALSE, mag |-> 0]

\* unary minus
xneg(a) == IF a.kind = "nan" THEN NaN ELSE [a EXCEPT !.neg = ~@]

\* a + b
xadd(a, b) ==
    LET va == IF a.neg THEN 0 - a.mag ELSE a.mag
        vb == IF b.neg THEN 0 - b.mag ELSE b.mag
    IN  IF a.kind = "nan" \/ b.kind = "nan" THEN NaN
        ELSE IF a.kind = "inf" /\ b.kind = "inf"
             THEN IF a.neg = b.neg THEN a ELSE NaN
        ELSE IF a.kind = "inf" THEN a
        ELSE IF b.kind = "inf" THEN b
        ELSE IF va + vb = 0 THEN [kind |-> "fin", neg |-> a.neg /\ b.neg, mag |-> 0]
        ELSE Fin(fadd(va, vb))

\* a * b
xmul(a, b) ==
    LET neg == a.neg # b.neg
        zero(c) == c.kind = "fin" /\ c.mag = 0
    IN  IF a.kind = "nan" \/ b.kind = "nan" THEN NaN
        ELSE IF a.kind = "inf" \/ b.kind = "inf"
             THEN IF zero(a) \/ zero(b) THEN NaN ELSE Inf(neg)
        ELSE [kind |-> "fin", neg |-> neg, mag |-> fmul(a.mag, b.mag)]

\* a / b
xdiv(a, b) ==
    LET neg == a.neg # b.neg
        zero(c) == c.kind = "fin" /\ c.mag = 0
    IN  IF a.kind = "nan" \/ b.kind = "nan" THEN NaN
        ELSE IF a.kind = "inf" THEN IF b.kind = "inf" THEN NaN ELSE Inf(neg)
        ELSE IF b.kind = "inf" THEN [kind |-> "fin", neg |-> neg, mag |-> 0]
        ELSE IF zero(b) THEN IF zero(a) THEN NaN ELSE Inf(neg)
        ELSE [kind |-> "fin", neg |-> neg, mag |-> fdiv(a.mag, b.mag)]

\* e^x of a finite x in grid units: x = n ln 2 + r with |r| <= (ln 2)/2, the
\* series of e^r to its sixth power on a scale of 2^-14, times 2^n, rounded
fexp(x) ==
    LET n == (2 * x + 2839) \div (2 * 2839)
        r == 4 * x - n * 11357
        RECURSIVE Series(_, _, _)
        Series(k, term, acc) ==
            IF k > 6 THEN acc
            ELSE LET next == (term * r) \div (k * 16384)
                 IN  Series(k + 1, next, acc + next)
        e == Series(1, 16384, 16384)
    IN  IF n <= 0 - 14 THEN 0
        ELSE IF n >= 0 THEN Round(e * Pow2(n), 4)
        ELSE Round(e, 4 * Pow2(0 - n))

\* f64::exp
xexp(a) ==
    IF a.kind = "nan" THEN NaN
    ELSE IF a.kind = "inf" THEN IF a.neg THEN Fin(0) ELSE a
    ELSE Fin(fexp(IF a.neg THEN 0 - a.mag ELSE a.mag))

\* a <= 0.0, false of NaN
le_zero(a) == a.kind # "nan" /\ (a.neg \/ (a.kind = "fin" /\ a.mag = 0))

\* a persistence score without the test of the buffering
persistence_score_unguarded(reversibility, entropy_pressure, buffering, fragility) ==
    xexp(xmul(xmul(xneg(fragility), xadd(Fin(One), xneg(reversibility))),
              xdiv(entropy_pressure, buffering)))

\* persistence_score(reversibility, entropy_pressure, buffering, fragility)
persistence_score(reversibility, entropy_pressure, buffering, fragility) ==
    IF le_zero(buffering) THEN Fin(0)
    ELSE xexp(xmul(xmul(xneg(fragility), xadd(Fin(One), xneg(reversibility))),
                   xdiv(entropy_pressure, buffering)))

\* the arguments tried: reversibility, entropy pressure, buffering, fragility
PersistenceArgs ==
    [reversibility : {Fin(0), Fin(One \div 2), Fin(One), Fin(3 * (One \div 2)),
                      NaN, Inf(FALSE)},
     entropy_pressure : {Fin(0), Fin(Round(One, 200)), Fin(One), Inf(FALSE), NaN},
     buffering : {Fin(0 - One), NegZero, Fin(0), Fin(One \div 2), Fin(2 * One),
                  Inf(TRUE), Inf(FALSE), NaN},
     fragility : {Fin(Round(One, 5)), Fin(0), Fin(0 - Round(One, 5))}]

PersistenceInit ==
    /\ perArgs \in PersistenceArgs
    /\ perOut = NaN
    /\ perPc = "args"

PersistenceOff ==
    /\ perArgs = [reversibility |-> Fin(0), entropy_pressure |-> Fin(0),
                  buffering |-> Fin(0), fragility |-> Fin(0)]
    /\ perOut = NaN
    /\ perPc = "off"

\* one call of persistence_score
PersistenceScore ==
    /\ perPc = "args"
    /\ perOut' = persistence_score(perArgs.reversibility, perArgs.entropy_pressure,
                                   perArgs.buffering, perArgs.fragility)
    /\ perPc' = "returned"
    /\ UNCHANGED perArgs

PersistenceNext == PersistenceScore

(***************************************************************************)
(* The specifications: each runs one component and holds the others still. *)
(***************************************************************************)
RateSpecInit == RateInit /\ CrawlOff /\ TokInit /\ CkptInit /\ SearchInit /\
        VecInit /\ LockInit /\ EngineOff /\ PersistenceOff /\ TwuInit

RateSpecNext == RateNext /\ UNCHANGED <<crawlVars, tokVars, ckptVars,
        searchVars, vecVars, lockVars, engVars, perVars, twuVars>>

RateSpec == RateSpecInit /\ [][RateSpecNext]_vars

TokSpecInit == TokInit /\ CrawlOff /\ RateOff /\ CkptInit /\ SearchInit /\
        VecInit /\ LockInit /\ EngineOff /\ PersistenceOff /\ TwuInit

TokSpecNext == TokNext /\ UNCHANGED <<crawlVars, rateVars, ckptVars,
        searchVars, vecVars, lockVars, engVars, perVars, twuVars>>

TokSpec == TokSpecInit /\ [][TokSpecNext]_vars

VocabSpecInit == TokInit /\ TwuInit /\ CrawlOff /\ RateOff /\ CkptInit /\
        SearchInit /\ VecInit /\ LockInit /\ EngineOff /\ PersistenceOff

VocabSpecNext == VocabNext /\ UNCHANGED <<crawlVars, rateVars, ckptVars,
        searchVars, vecVars, lockVars, engVars, perVars>>

VocabSpec == VocabSpecInit /\ [][VocabSpecNext]_vars

CkptSpecInit == CkptInit /\ CrawlOff /\ RateOff /\ TokInit /\ SearchInit /\
        VecInit /\ LockInit /\ EngineOff /\ PersistenceOff /\ TwuInit

CkptSpecNext == CkptNext /\ UNCHANGED <<crawlVars, rateVars, tokVars,
        searchVars, vecVars, lockVars, engVars, perVars, twuVars>>

CkptSpec == CkptSpecInit /\ [][CkptSpecNext]_vars

LoadSpecInit == CkptInit /\ CrawlOff /\ RateOff /\ TokInit /\ SearchInit /\
        VecInit /\ LockInit /\ EngineOff /\ PersistenceOff /\ TwuInit

LoadSpecNext == LoadNext /\ UNCHANGED <<crawlVars, rateVars, tokVars,
        searchVars, vecVars, lockVars, engVars, perVars, twuVars>>

LoadSpec == LoadSpecInit /\ [][LoadSpecNext]_vars

SearchSpecInit == TokInit /\ SearchInit /\ CrawlOff /\ RateOff /\ CkptInit /\
        VecInit /\ LockInit /\ EngineOff /\ PersistenceOff /\ TwuInit

SearchSpecNext == SearchNext /\ UNCHANGED <<crawlVars, rateVars, ckptVars,
        vecVars, lockVars, engVars, perVars, twuVars>>

SearchSpec == SearchSpecInit /\ [][SearchSpecNext]_vars

VecSpecInit == VecInit /\ CrawlOff /\ RateOff /\ TokInit /\ CkptInit /\
        SearchInit /\ LockInit /\ EngineOff /\ PersistenceOff /\ TwuInit

VecSpecNext == VecNext /\ UNCHANGED <<crawlVars, rateVars, tokVars, ckptVars,
        searchVars, lockVars, engVars, perVars, twuVars>>

VecSpec == VecSpecInit /\ [][VecSpecNext]_vars

LockSpecInit == LockInit /\ CrawlOff /\ RateOff /\ TokInit /\ CkptInit /\
        SearchInit /\ VecInit /\ EngineOff /\ PersistenceOff /\ TwuInit

LockSpecNext == LockNext /\ UNCHANGED <<crawlVars, rateVars, tokVars,
        ckptVars, searchVars, vecVars, engVars, perVars, twuVars>>

LockSpec == LockSpecInit /\ [][LockSpecNext]_vars

PersistenceSpecInit == PersistenceInit /\ CrawlOff /\ RateOff /\ TokInit /\
        CkptInit /\ SearchInit /\ VecInit /\ LockInit /\ EngineOff /\ TwuInit

PersistenceSpecNext == PersistenceNext /\ UNCHANGED <<crawlVars, rateVars,
        tokVars, ckptVars, searchVars, vecVars, lockVars, engVars, twuVars>>

PersistenceSpec == PersistenceSpecInit /\ [][PersistenceSpecNext]_vars

EngineSpecInit == TokInit /\ EngineInit /\ CrawlOff /\ RateOff /\ CkptInit /\
        VecInit /\ LockInit /\ PersistenceOff /\ TwuInit

EngineSpecNext == EngineNext /\ UNCHANGED <<crawlVars, rateVars, ckptVars,
        vecVars, lockVars, perVars, twuVars>>

EngineSpec == EngineSpecInit /\ [][EngineSpecNext]_vars

CompressSpecInit == TokInit /\ EngineInit /\ CrawlOff /\ RateOff /\
        CkptInit /\ VecInit /\ LockInit /\ PersistenceOff /\ TwuInit

CompressSpecNext == CompressNext /\ UNCHANGED <<crawlVars, rateVars,
        ckptVars, vecVars, lockVars, perVars, twuVars>>

CompressSpec == CompressSpecInit /\ [][CompressSpecNext]_vars

HistorySpecInit == TokInit /\ EngineInit /\ CrawlOff /\ RateOff /\
        CkptInit /\ VecInit /\ LockInit /\ PersistenceOff /\ TwuInit

HistorySpecNext == HistoryNext /\ UNCHANGED <<crawlVars, rateVars, ckptVars,
        vecVars, lockVars, perVars, twuVars>>

HistorySpec == HistorySpecInit /\ [][HistorySpecNext]_vars

ClockSpecInit == TokInit /\ EngineInit /\ CrawlOff /\ RateOff /\ CkptInit /\
        VecInit /\ LockInit /\ PersistenceOff /\ TwuInit

ClockSpecNext == ClockNext /\ UNCHANGED <<crawlVars, rateVars, ckptVars,
        vecVars, lockVars, perVars, twuVars>>

ClockSpec == ClockSpecInit /\ [][ClockSpecNext]_vars

StoreSpecInit == TokInit /\ EngineInit /\ CrawlOff /\ RateOff /\ CkptInit /\
        VecInit /\ LockInit /\ PersistenceOff /\ TwuInit

StoreSpecNext == StoreNext /\ UNCHANGED <<crawlVars, rateVars, ckptVars,
        vecVars, lockVars, perVars, twuVars>>

StoreSpec == StoreSpecInit /\ [][StoreSpecNext]_vars

CrawlNext ==
    \/ StartCrawl
    \/ \E w \in Workers : WorkerNext(w)
    \/ \E wordy \in BOOLEAN : Recv(wordy)
    \/ RecvClosed

\* the crawl with its timing left out: the timestamp map is read by
\* respect_rate_limits alone (RateSpec)
Init == CrawlInit /\ RateOff /\ TokInit /\ CkptInit /\ SearchInit /\
        VecInit /\ LockInit /\ EngineOff /\ PersistenceOff /\ TwuInit

Next == CrawlNext /\ UNCHANGED <<rateVars, tokVars, ckptVars, searchVars,
        vecVars, lockVars, engVars, perVars, twuVars>>

Spec == Init /\ [][Next]_vars

\* the workers and the consumer are scheduled fairly: timers fire, requests
\* end (30 s client timeout), a ready task is polled again
Fairness ==
    /\ WF_crawlVars(StartCrawl)
    /\ \A w \in Workers : WF_crawlVars(WorkerNext(w))
    /\ WF_crawlVars(\E wordy \in BOOLEAN : Recv(wordy))
    /\ WF_crawlVars(RecvClosed)

LiveSpec == Init /\ [][Next]_vars /\ Fairness

(***************************************************************************)
(* Properties of the crawl.                                                *)
(***************************************************************************)

\* C1: with max_pages = N the visited set never holds more than N strings,
\* whatever the number of workers and the order of their steps.
C1_VisitedWithinBudget == Cardinality(visited_urls) <= max_pages

\* the budget is exhausted with entries left in the queue and a worker
\* stopped by it
C1_Witness ==
    /\ max_pages = MaxPagesBound
    /\ Cardinality(visited_urls) = max_pages
    /\ url_queue # <<>>
    /\ \E w \in Workers : pc[w] = "stopped_budget"

C4_DepthWithinMax ==
    /\ \A i \in 1..Len(url_queue) : url_queue[i][2] \in 0..max_depth
    /\ \A w \in Workers : cur[w].depth \in 0..max_depth
    /\ \A i \in 1..Len(url_queue) :
          url_queue[i][2] = 0 => url_queue[i][1] \in Range(seed_urls)

\* a link was enqueued at the maximal depth
C4_Witness ==
    /\ max_depth = MaxDepthBound
    /\ \E i \in 1..Len(url_queue) : url_queue[i][2] = max_depth

\* C5: with stay_in_domain the allow-list is the set of the seeds' hosts, no
\* URL of another host is requested or sent as a document, and a URL skipped
\* for its host is not reported as a failure.
C5_StayInDomain ==
    (stay_in_domain /\ crawlPhase = "running") =>
        /\ SeedHosts # {} => allowed = SeedHosts
        /\ \A s \in UrlStrings :
              fetchCount[s] > 0 => extract_domain(s) \in SeedHosts \cup {NoHost}
        /\ \A i \in 1..Len(sent) : host_str(sent[i].url) \in SeedHosts
        /\ \A s \in visited_urls :
              extract_domain(s) \notin SeedHosts \cup {NoHost} => s \notin failLog

\* a link to another host was popped and skipped after a document was sent
C5_Witness ==
    /\ stay_in_domain
    /\ Len(sent) >= 1
    /\ \E s \in visited_urls : extract_domain(s) \notin SeedHosts \cup {NoHost}

StopsOnlyWhenDue ==
    \A w \in Workers :
        (pc[w] \notin {"stopped_budget", "stopped_empty"}
           /\ pc'[w] \in {"stopped_budget", "stopped_empty"})
        => \/ pc[w] = "loop" /\ Cardinality(visited_urls) >= max_pages
           \/ pc[w] = "idle" /\ url_queue = <<>>

\* C9: under fair scheduling, with finitely many URLs and a consumer that
\* keeps draining the channel, every worker eventually stops, and a worker
\* stops only on the page budget or on the queue found empty after the idle
\* poll.
C9_WorkersStop ==
    /\ <>(AllStopped \/ consumerPc = "stopped_early")
    /\ [][StopsOnlyWhenDue]_vars

\* one worker gave up on an empty queue, another stopped on the budget
C9_Witness ==
    /\ AllStopped
    /\ \E w \in Workers : pc[w] = "stopped_empty"
    /\ \E w \in Workers : pc[w] = "stopped_budget"
    /\ Cardinality(visited_urls) >= 1

(***************************************************************************)
(* Properties of the rate limiter.                                         *)
(***************************************************************************)

\* C3: any two requests to the same host start at least 1000 ms apart,
\* whether issued by one worker or by two.
C3_SameHostGap ==
    \A r1, r2 \in reqLog :
        (r1 # r2 /\ r1.host = r2.host) =>
            (r1.at - r2.at >= RateLimitMs \/ r2.at - r1.at >= RateLimitMs)

(***************************************************************************)
(* Properties of the tokenizer.                                            *)
(***************************************************************************)

\* C6: of two distinct tokens the one seen first has the smaller prime, and
\* every tokenize call yields for a token the prime of its first occurrence.
C6_PrimesIncreaseInFirstSeenOrder ==
    /\ \A i, j \in 1..Len(firstSeen) :
          i < j => token_to_prime[firstSeen[i]] < token_to_prime[firstSeen[j]]
    /\ \A t \in DOMAIN firstPrime : token_to_prime[t] = firstPrime[t]
    /\ LET words == find_iter(to_lowercase(lastText), <<>>) IN
          /\ Len(lastOut) = Len(words)
          /\ \A k \in 1..Len(words) : lastOut[k] = firstPrime[words[k]]

\* a later call tokenized a text in which a new token comes before a token of
\* an earlier call: the earlier token kept its smaller prime
C6_Witness ==
    /\ tokCalls = 2
    /\ Len(firstSeen) >= 2
    /\ \E k \in 1..(Len(lastOut) - 1) : lastOut[k] > lastOut[k + 1]

(***************************************************************************)
(* Properties of the checkpoint.                                           *)
(***************************************************************************)
Tuple(d) == <<d.path, d.title, d.entropy, d.reversibility, d.timestamp>>

\* C7: loading a saved checkpoint into a fresh engine succeeds and yields one
\* document per saved document, in the same order, with the same (url, title,
\* entropy, reversibility, timestamp).
C7_RoundTrip ==
    loadStatus # "none" =>
        /\ loadStatus = "ok"
        /\ Len(loadedDocs) = Len(savedDocs)
        /\ \A i \in 1..Len(savedDocs) : Tuple(loadedDocs[i]) = Tuple(savedDocs[i])

\* C7 for the stores whose titles hold no tab and no line feed
C7_RoundTripPlainTitles ==
    (/\ loadStatus # "none"
     /\ \A i \in 1..Len(savedDocs) :
           \A k \in 1..Len(savedDocs[i].title) :
               savedDocs[i].title[k] \notin {Tab, Newline}) =>
        /\ loadStatus = "ok"
        /\ Len(loadedDocs) = Len(savedDocs)
        /\ \A i \in 1..Len(savedDocs) : Tuple(loadedDocs[i]) = Tuple(savedDocs[i])

(***************************************************************************)
(* Properties of search.                                                   *)
(***************************************************************************)

Tolerance == 4 * Pow2(GridBits - MantBits + 1)

Within(x, y, tol) == x - y <= tol /\ y - x <= tol

\* the sum of the squared weights, exactly, in squared grid units
SquaredNorm(vector) ==
    SumOver([p \in DOMAIN vector |-> vector[p] * vector[p]], DOMAIN vector)

\* C18: build_vector of a non-empty token sequence gives each prime its count
\* divided by the square root of the sum of the squared counts, and the
\* squared weights sum to 1 within the tolerance; the empty sequence gives
\* the empty vector.
C18_BuildVectorNormalized ==
    vecPc # "none" =>
        \A in \in {<<primesA, vectorA>>, <<primesB, vectorB>>} :
            LET primes == in[1]
                vector == in[2]
                count(p) == Cardinality({i \in 1..Len(primes) : primes[i] = p})
                squares == SumOver([p \in Range(primes) |-> count(p) * count(p)],
                                   Range(primes))
            IN  IF primes = <<>> THEN vector = EmptyMap
                ELSE /\ DOMAIN vector = Range(primes)
                     /\ \A p \in DOMAIN vector :
                           vector[p] = fdiv(FromInt(count(p)), fsqrt(FromInt(squares)))
                     /\ Within(SquaredNorm(vector), One * One, Tolerance * One)

\* a vector was built of a sequence in which a prime occurs twice and another
\* once, and its squared weights do not sum to 1 exactly
C18_Witness ==
    /\ vecPc # "none"
    /\ Cardinality(DOMAIN vectorA) >= 2
    /\ Len(primesA) > Cardinality(DOMAIN vectorA)
    /\ SquaredNorm(vectorA) # One * One

\* C19 as stated: dot_product(a, b) equals dot_product(b, a), dot_product(a, a)
\* equals 1 for a non-empty vector of build_vector, and dot_product is 0.0
\* when either vector is empty.
C19_DotProductExact ==
    vecPc = "multiplied" =>
        /\ dotAB = dotBA
        /\ primesA # <<>> => dotAA = One
        /\ (primesA = <<>> \/ primesB = <<>>) => (dotAB = 0 /\ dotBA = 0)

\* C19 amended: dot_product(a, b) and dot_product(b, a) agree within the
\* tolerance, dot_product(a, a) is 1 within the tolerance for a non-empty
\* vector of build_vector, and dot_product is exactly 0.0 when either vector
\* is empty.
C19_DotProductWithinTolerance ==
    vecPc = "multiplied" =>
        /\ Within(dotAB, dotBA, Tolerance)
        /\ primesA # <<>> => Within(dotAA, One, Tolerance)
        /\ (primesA = <<>> \/ primesB = <<>>) => (dotAB = 0 /\ dotBA = 0)

\* two vectors with three common primes were multiplied both ways and the
\* results differ
C19_Witness ==
    /\ vecPc = "multiplied"
    /\ Cardinality(DOMAIN vectorA \cap DOMAIN vectorB) = 3
    /\ dotAB # dotBA
    /\ dotAB > 0

(***************************************************************************)
(* Properties of the combined score.                                       *)
(***************************************************************************)

\* the weights of the claim, in hundredths
Weighted(r, ws, wq, wp) ==
    ws * r.score + wq * r.quantum_score + wp * r.persistence_score

\* C20: the results of a search are ordered by 0.5 standard + 0.25 quantum +
\* 0.25 persistence when both optional scores are enabled, by 0.7 standard +
\* 0.3 quantum when only quantum is, by 0.7 standard + 0.3 persistence when
\* only persistence is, and by standard alone when neither is; no document
\* left out has a greater value than a returned one; and a disabled optional
\* score is reported as 0.
C20_CombinedScoreWeights ==
    searchState = "done" =>
        LET value(r) ==
                CASE use_quantum_score /\ use_persistence_score -> Weighted(r, 50, 25, 25)
                  [] use_quantum_score /\ ~use_persistence_score -> Weighted(r, 70, 30, 0)
                  [] ~use_quantum_score /\ use_persistence_score -> Weighted(r, 70, 0, 30)
                  [] ~use_quantum_score /\ ~use_persistence_score -> Weighted(r, 100, 0, 0)
            returned == {results[k].doc : k \in 1..Len(results)}
        IN  /\ \A i, j \in 1..Len(results) :
                  i < j => value(results[i]) >= value(results[j])
            /\ \A i \in (1..Len(scored)) \ returned :
                  \A k \in 1..Len(results) : value(scored[i]) <= value(results[k])
            /\ \A i \in 1..Len(scored) :
                  /\ ~use_quantum_score => scored[i].quantum_score = 0
                  /\ ~use_persistence_score => scored[i].persistence_score = 0

\* with only the quantum score enabled, a document of lower standard score
\* was returned before one of higher standard score
C20_Witness ==
    /\ searchState = "done"
    /\ use_quantum_score /\ ~use_persistence_score
    /\ Len(results) >= 2
    /\ results[1].score < results[2].score
    /\ results[1].quantum_score > 0
    /\ Weighted(results[1], 70, 30, 0) > Weighted(results[2], 70, 30, 0)

(***************************************************************************)
(* Properties of loading a checkpoint.                                     *)
(***************************************************************************)

\* the tab-separated fields of a line
FieldCount(line) == 1 + Cardinality({i \in 1..Len(line) : line[i] = Tab})

\* the lines of a file that are not header lines: those from the first line
\* that does not begin with "#"
NonHeaderLines(content) ==
    LET ls == lines(content)
        data == {i \in 1..Len(ls) : ls[i] = <<>> \/ ls[i][1] # "#"}
    IN  IF data = {} THEN <<>>
        ELSE SubSeq(ls, CHOOSE i \in data : \A j \in data : i <= j, Len(ls))

C16_FailedFetchAbandoned ==
    [][/\ \A w \in Workers :
             (pc[w] = "fetching" /\ pc'[w] \notin {"fetching", "sending"}) =>
                 /\ pc'[w] = "loop"
                 /\ chan' = chan /\ sent' = sent /\ doc'[w] = NoDoc
                 /\ cur[w].str \in visited_urls'
                 /\ url_queue' = url_queue
       /\ \A s \in visited_urls :
             s \in visited_urls' /\ fetchCount'[s] = fetchCount[s]]_vars

\* a fetch failed, its URL was requested once and is visited, nothing was
\* sent, and with the other worker stopped the same worker is fetching the
\* next entry
C16_Witness ==
    \E w, v \in Workers, s \in failLog :
        /\ pc[v] = "stopped_budget"
        /\ pc[w] = "fetching"
        /\ cur[w].str # s
        /\ fetchCount[s] = 1
        /\ s \in visited_urls
        /\ sent = <<>>

(***************************************************************************)
(* Properties of the mutexes.                                              *)
(***************************************************************************)

\* C17: a worker that is suspended (at a sleep, the network or the channel)
\* holds no guard of the frontier queue, the visited set or the timestamp
\* map; and when respect_rate_limits has run, it has locked the timestamp
\* map, read it and unlocked it, slept if it had to, and then locked the map
\* again, written it and unlocked it.
C17_NoGuardAcrossAwait ==
    \A w \in Workers :
        /\ Program[at[w]].op = "await" => held[w] = {}
        /\ Program[at[w]].op \in {"read", "write"} => Program[at[w]].on \in held[w]
        /\ (at[w] = "jitter_sleep" /\ rateOps[w] # <<>>) =>
              rateOps[w] \in
                  {<<"lock", "read", "unlock", "lock", "write", "unlock">>,
                   <<"lock", "read", "unlock", "await", "lock", "write", "unlock">>}

\* one worker has slept in respect_rate_limits and written the timestamp
\* while the other is suspended in its own rate-limit sleep
C17_Witness ==
    \E w, v \in Workers :
        /\ at[w] = "jitter_sleep"
        /\ Len(rateOps[w]) = 7
        /\ at[v] = "rate_sleep"

(***************************************************************************)
(* Properties of the engine.                                               *)
(***************************************************************************)
RustProgrammingLanguage ==
    <<"r", "u", "s", "t", " ", "p", "r", "o", "g", "r", "a", "m", "m", "i",
      "n", "g", " ", "l", "a", "n", "g", "u", "a", "g", "e">>

ModularSynthesizerEurorack ==
    <<"m", "o", "d", "u", "l", "a", "r", " ", "s", "y", "n", "t", "h", "e",
      "s", "i", "z", "e", "r", " ", "e", "u", "r", "o", "r", "a", "c", "k">>

RustProgramming ==
    <<"r", "u", "s", "t", " ", "p", "r", "o", "g", "r", "a", "m", "m", "i",
      "n", "g">>

\* the position of the result for document i of the store, 0 if not returned
PositionOf(i) ==
    IF \E k \in 1..Len(results) : results[k].doc = i
    THEN CHOOSE k \in 1..Len(results) : results[k].doc = i
    ELSE 0

\* C11: with both optional scores off and the store holding exactly a
\* document with text "rust programming language" and one with text "modular
\* synthesizer eurorack", a search for "rust programming" with top_k >= 2
\* returns both, the first before the second and with a strictly greater score.
C11_RustRanksAboveSynth ==
    (/\ searchState = "done"
     /\ ~use_quantum_score /\ ~use_persistence_score
     /\ lastCall.text = RustProgramming
     /\ searchTopK >= 2
     /\ Len(indexed_docs) = 2
     /\ {indexed_docs[1].text, indexed_docs[2].text} =
            {RustProgrammingLanguage, ModularSynthesizerEurorack}) =>
        LET a == CHOOSE i \in 1..2 : indexed_docs[i].text = RustProgrammingLanguage
            b == CHOOSE i \in 1..2 : indexed_docs[i].text = ModularSynthesizerEurorack
        IN  /\ PositionOf(a) > 0
            /\ PositionOf(b) > 0
            /\ PositionOf(a) < PositionOf(b)
            /\ results[PositionOf(a)].score > results[PositionOf(b)].score

\* the search of the scenario was made on a store in which the synthesizer
\* document comes first
C11_Witness ==
    /\ searchState = "done"
    /\ lastCall.text = RustProgramming
    /\ searchTopK = 2
    /\ Len(indexed_docs) = 2
    /\ indexed_docs[1].text = ModularSynthesizerEurorack
    /\ indexed_docs[2].text = RustProgrammingLanguage
    /\ Len(results) = 2
    /\ results[1].doc = 2

\* C12: every result of a search has score = resonance - |doc.entropy -
\* query entropy| * 0.1, its resonance being a value of dot_product(query
\* vector, doc vector); and the resonance of a document that shares no token
\* with the query is exactly 0.0.
C12_StandardScore ==
    searchState = "done" =>
        \A k \in 1..Len(results) :
            LET r == results[k]
                d == indexed_docs[r.doc]
                diff == fsub(d.entropy, lastCall.query_entropy)
                penalty == fmul(IF diff < 0 THEN 0 - diff ELSE diff, Round(One, 10))
            IN  /\ r.resonance \in dot_product(lastCall.query_vec, d.vector)
                /\ r.score = fsub(r.resonance, penalty)
                /\ DOMAIN d.vector \cap DOMAIN lastCall.query_vec = {} => r.resonance = 0

\* a search returned a document that shares tokens with the query, with a
\* positive resonance and a positive penalty, and one that shares none
C12_Witness ==
    /\ searchState = "done"
    /\ \E k \in 1..Len(results) :
          /\ results[k].resonance > 0
          /\ results[k].delta_entropy > 0
          /\ results[k].score < results[k].resonance
    /\ \E k \in 1..Len(results) :
          /\ DOMAIN indexed_docs[results[k].doc].vector \cap DOMAIN lastCall.query_vec = {}
          /\ results[k].score < 0

\* C13: a document added since the last update_document_relationships (which
\* every search runs) and the last apply_quantum_jump has reversibility 1.0
\* and exactly one historical vector, the dense form of its own vector.
C13_FreshDocument ==
    \A i \in freshDocs :
        /\ indexed_docs[i].reversibility = One
        /\ indexed_docs[i].historical_vectors =
               <<[p \in DOMAIN indexed_docs[i].vector |-> indexed_docs[i].vector[p]]>>

\* a document is fresh while another one has been through a relationship
\* update or a jump that changed its reversibility and extended its history
C13_Witness ==
    /\ freshDocs # {}
    /\ \E i \in 1..Len(indexed_docs) :
          /\ i \notin freshDocs
          /\ indexed_docs[i].reversibility # One
          /\ Len(indexed_docs[i].historical_vectors) >= 2

\* C14: add_crawled_document on a text without a word character leaves the
\* store as it is; on a text with one it appends one document and leaves the
\* documents already stored as they are.
C14_AddDocumentFrame ==
    [][lastCall'.op = "add" =>
          IF \A k \in 1..Len(lastCall'.text) : ~IsWordChar(lastCall'.text[k])
          THEN indexed_docs' = indexed_docs
          ELSE /\ Len(indexed_docs') = Len(indexed_docs) + 1
               /\ SubSeq(indexed_docs', 1, Len(indexed_docs)) = indexed_docs
               /\ indexed_docs'[Len(indexed_docs')].text = lastCall'.text]_vars

\* the text without a word was added to a store of one document that had
\* been through a jump, and the store still holds that one document
C14_Witness ==
    /\ lastCall.op = "add"
    /\ \A k \in 1..Len(lastCall.text) : ~IsWordChar(lastCall.text[k])
    /\ Len(indexed_docs) = 1
    /\ Len(indexed_docs[1].historical_vectors) = 2

(***************************************************************************)
(* Properties of the persistence score.                                    *)
(***************************************************************************)

\* C21: persistence_score(r, p, b, f) returns 0.0 whenever the buffering b
\* is less than or equal to 0 (0.0, -0.0, a negative number, minus infinity),
\* whatever r, p and f are, NaN and the infinities included.
C21_ZeroWithoutBuffering ==
    (perPc = "returned" /\ le_zero(perArgs.buffering)) => perOut = Fin(0)

\* the call was made with buffering 0.0, a reversibility of 1.0 and a
\* positive entropy pressure (the quotient is infinite, its product with
\* 1 - r is NaN), and a call with positive buffering returned a value
\* other than 0.0
C21_Witness ==
    /\ perPc = "returned"
    /\ perArgs.buffering = Fin(0)
    /\ perArgs.reversibility = Fin(One)
    /\ perArgs.entropy_pressure = Fin(One)
    /\ perOut = Fin(0)
    /\ persistence_score(Fin(0), Fin(One), Fin(One \div 2), Fin(Round(One, 5))) \notin
           {Fin(0), Fin(One), NaN}

(***************************************************************************)
(* Properties of link extraction.                                          *)
(***************************************************************************)

\* the entries appended to the frontier by a step hold every link of the
\* page that is not visited, at the depth after the page's
LinksAppended(w, links) ==
    \A i \in 1..Len(links) :
        links[i] \notin visited_urls =>
            \E k \in (Len(url_queue) + 1)..Len(url_queue') :
                url_queue'[k] = <<links[i], cur[w].depth + 1>>

\* C22: after every fetch of a URL at depth d < max_depth that returns a 2xx
\* status with an HTML content type, every link of the page that is not in
\* the visited set is appended to the frontier at depth d + 1.
C22_LinksEnqueued ==
    [][\A w \in Workers, links \in LinkLists :
          ((FetchPage(w, links) \/ FetchEmptyPage(w, links))
               /\ cur[w].depth < max_depth) => LinksAppended(w, links)]_vars

\* the same of the pages that have body text: their unvisited links, and
\* nothing else, are appended in page order
C22_LinksEnqueuedOfTextPages ==
    [][\A w \in Workers, links \in LinkLists :
          (FetchPage(w, links) /\ cur[w].depth < max_depth) =>
              /\ LinksAppended(w, links)
              /\ Len(url_queue') =
                     Len(url_queue) +
                     Cardinality({i \in 1..Len(links) : links[i] \notin visited_urls})]_vars

(***************************************************************************)
(* Properties of the document store.                                       *)
(***************************************************************************)

\* the step is a call of search with a query that yields no tokens
EmptyQuerySearch ==
    /\ lastCall'.op = "search"
    /\ engCalls' = engCalls + 1
    /\ tokenize(lastCall'.text).out = <<>>

\* C23 as stated: a search whose query yields no tokens returns an empty
\* result and leaves every stored document's reversibility, history,
\* timestamp and text buffers exactly as they were before the call.
C23_EmptyQueryChangesNothing ==
    [][EmptyQuerySearch =>
          /\ results' = <<>>
          /\ Len(indexed_docs') = Len(indexed_docs)
          /\ \A i \in 1..Len(indexed_docs) :
                /\ indexed_docs'[i].reversibility = indexed_docs[i].reversibility
                /\ indexed_docs'[i].historical_vectors =
                       indexed_docs[i].historical_vectors
                /\ indexed_docs'[i].timestamp = indexed_docs[i].timestamp
                /\ indexed_docs'[i].text = indexed_docs[i].text
                /\ indexed_docs'[i].compressed_text =
                       indexed_docs[i].compressed_text]_vars

\* C23: a search whose query yields no tokens returns an empty result and
\* leaves every stored document's timestamp and text buffers exactly as
\* they were before the call; its reversibility and history are those
\* update_document_relationships gives it, and nothing is scored.
C23_EmptyQueryOnlyUpdatesRelationships ==
    [][EmptyQuerySearch =>
          /\ results' = <<>>
          /\ scored' = <<>>
          /\ searchState' = "empty_query"
          /\ indexed_docs' = update_document_relationships(indexed_docs)
          /\ Len(indexed_docs') = Len(indexed_docs)
          /\ \A i \in 1..Len(indexed_docs) :
                /\ indexed_docs'[i].timestamp = indexed_docs[i].timestamp
                /\ indexed_docs'[i].text = indexed_docs[i].text
                /\ indexed_docs'[i].compressed_text =
                       indexed_docs[i].compressed_text]_vars

\* the only search so far had a query without tokens, on a store of two
\* documents, the first with its text compressed: the text is still
\* compressed, and the history has the entry the update appended
C23_Witness ==
    /\ lastCall.op = "search"
    /\ engCalls = 1
    /\ searchState = "empty_query"
    /\ results = <<>>
    /\ Len(indexed_docs) = 2
    /\ indexed_docs[1].text = <<>>
    /\ indexed_docs[1].compressed_text # None
    /\ Len(indexed_docs[1].historical_vectors) = 2

\* the step is a call of search, which starts with
\* update_document_relationships
SearchCall ==
    /\ lastCall'.op = "search"
    /\ engCalls' = engCalls + 1

\* the dense vectors of the documents of the store other than the i-th
DenseOthers(i) ==
    LET all == [j \in 1..Len(indexed_docs) |->
                   to_dense_vector(indexed_docs[j].vector, 1000)]
    IN  SubSeq(all, 1, i - 1) \o SubSeq(all, i + 1, Len(all))

\* the i-th document has, after the step, the reversibility recomputed
\* against the other documents and its dense vector appended to a history
\* of fewer than 5
Related(i) ==
    /\ indexed_docs'[i].reversibility =
           calculate_reversibility(to_dense_vector(indexed_docs[i].vector, 1000),
                                   DenseOthers(i))
    /\ indexed_docs'[i].historical_vectors =
           IF Len(indexed_docs[i].historical_vectors) < 5
           THEN Append(indexed_docs[i].historical_vectors,
                       to_dense_vector(indexed_docs[i].vector, 1000))
           ELSE indexed_docs[i].historical_vectors

\* C24 as stated: update_document_relationships, for every stored document
\* and for every store size of at least one document, recomputes the
\* document's reversibility against the dense vectors of all other documents
\* and appends its current dense vector to its history when the history
\* holds fewer than 5 entries.
C24_RelationshipsOfEveryStore ==
    [][SearchCall =>
          \A i \in 1..Len(indexed_docs) : Len(indexed_docs) >= 1 => Related(i)]_vars

\* C24: update_document_relationships, for every stored document and for
\* every store size of at least two documents, recomputes the document's
\* reversibility against the dense vectors of all other documents and
\* appends its current dense vector to its history when the history holds
\* fewer than 5 entries; a document alone in the store keeps its
\* reversibility and its history.
C24_RelationshipsOfTwoOrMore ==
    [][SearchCall =>
          \A i \in 1..Len(indexed_docs) :
             IF Len(indexed_docs) >= 2
             THEN Related(i)
             ELSE /\ indexed_docs'[i].reversibility = indexed_docs[i].reversibility
                  /\ indexed_docs'[i].historical_vectors =
                         indexed_docs[i].historical_vectors]_vars

\* a search has run on two documents, the first with a full history and
\* the second with a shorter one that grew, the reversibility of the first
\* being the mean mutual information with the second and not 1.0
C24_Witness ==
    /\ lastCall.op = "search"
    /\ Len(indexed_docs) = 2
    /\ Len(indexed_docs[1].historical_vectors) = 5
    /\ Len(indexed_docs[2].historical_vectors) \in 2..4
    /\ indexed_docs[1].reversibility =
           calculate_reversibility(to_dense_vector(indexed_docs[1].vector, 1000),
                                   <<to_dense_vector(indexed_docs[2].vector, 1000)>>)
    /\ indexed_docs[1].reversibility # One

\* every document's history holds between 1 and 5 dense vectors
HistoryWithinCapacity ==
    \A i \in 1..Len(indexed_docs) :
        Len(indexed_docs[i].historical_vectors) \in 1..5

\* a jump that pushed onto a history of 5 removed its first entry and left
\* the other four in their order before the new one
OldestEvicted ==
    (lastCall'.op = "jump" /\ engCalls' = engCalls + 1) =>
        \A i \in lastCall'.evicted :
           LET before == indexed_docs[i].historical_vectors
               after == indexed_docs'[i].historical_vectors
           IN  /\ Len(before) = 5
               /\ Len(after) = 5
               /\ SubSeq(after, 1, 4) = SubSeq(before, 2, 5)
               /\ after[5] = to_dense_vector(indexed_docs[i].vector, 1000)

\* C25: after any sequence of add_document, load_checkpoint, search and
\* apply_quantum_jump calls, every document's history holds between 1 and 5
\* dense vectors; when apply_quantum_jump pushes onto a history that already
\* holds 5 it removes the oldest entry and keeps the other four in their
\* order.
C25_HistoryOfOneToFive ==
    []HistoryWithinCapacity /\ [][OldestEvicted]_vars

\* a jump has pushed onto the full history of a document, next to a
\* placeholder of a checkpoint
C25_Witness ==
    /\ lastCall.op = "jump"
    /\ lastCall.evicted # {}
    /\ \A i \in lastCall.evicted : Len(indexed_docs[i].historical_vectors) = 5
    /\ \E i \in 1..Len(indexed_docs) : indexed_docs[i].text = <<>>

\* C26: the document store never holds two documents with the same URL
\* after any sequence of load_checkpoint and add_document calls:
\* add_document for a URL already present as a checkpoint placeholder
\* restores that document's text and vectors rather than adding a second
\* document with that URL.
C26_OneDocumentPerUrl ==
    \A i, j \in 1..Len(indexed_docs) :
        indexed_docs[i].url = indexed_docs[j].url => i = j

\* C27: after every compress_all_documents call, in any sequence of
\* add_document, search and compress_all_documents calls, every document
\* that has a compressed buffer has an empty plain-text field.
C27_CompressedMeansNoPlainText ==
    lastCall.op = "compress" =>
        \A i \in 1..Len(indexed_docs) :
            indexed_docs[i].compressed_text # None => indexed_docs[i].text = <<>>

\* C28: a load_checkpoint call that fails on a malformed line leaves the
\* document store as it was before the call: no document built from an
\* earlier line of that file remains in the store.
C28_FailedLoadLeavesStore ==
    [][(lastCall'.op = "load" /\ ~lastCall'.ok) => indexed_docs' = indexed_docs]_vars

\* the step is apply_quantum_jump executed at time now
JumpAt(now) ==
    \E query \in Queries, build \in Builds :
        apply_quantum_jump(query, Round(2 * One, 10), now, build)

\* C29: apply_quantum_jump executed at time now changes the timestamp ts of
\* a resonant document only when now - ts is greater than 86400 seconds, and
\* then sets it to now - floor((now - ts) / 2); consequently a document's
\* timestamp never decreases and never exceeds now.
C29_TimestampHalvesAge ==
    [][\A now \in EngineTimes :
          JumpAt(now) =>
             \A i \in 1..Len(indexed_docs) :
                LET ts == indexed_docs[i].timestamp
                    after == indexed_docs'[i].timestamp
                IN  /\ after # ts =>
                          /\ now - ts > 86400
                          /\ after = now - ((now - ts) \div 2)
                          /\ after <= now
                    /\ after >= ts]_vars

\* the step is a call of apply_quantum_jump, finished or stopped by a panic
JumpCall ==
    /\ lastCall'.op \in {"jump", "panic"}
    /\ engCalls' = engCalls + 1

\* every value dot_product can give for the query of the step and the i-th
\* document is at most 0.1
NotResonant(query_vector, i) ==
    \A r \in dot_product(query_vector, indexed_docs[i].vector) :
       r <= Round(One, 10)

\* C30: apply_quantum_jump leaves every field of every document whose
\* dot_product with the query is at most 0.1 unchanged, changes no document
\* at all when the query has no tokens, and never adds or removes documents.
C30_JumpFrame ==
    [][JumpCall =>
          LET tokens == tokenize(lastCall'.text).out
              query_vector == build_vector(tokens)
          IN  /\ Len(indexed_docs') = Len(indexed_docs)
              /\ \A i \in 1..Len(indexed_docs) :
                    \/ indexed_docs'[i] = indexed_docs[i]
                    \/ ~NotResonant(query_vector, i)
              /\ tokens = <<>> => indexed_docs' = indexed_docs]_vars

\* the only call so far was a jump for a query with tokens on a store of
\* two documents: the one that resonates has a second historical vector,
\* the placeholder that does not is as it was loaded
C30_Witness ==
    /\ lastCall.op = "jump"
    /\ engCalls = 1
    /\ tokenize(lastCall.text).out # <<>>
    /\ Len(indexed_docs) = 2
    /\ \E i, j \in 1..2 :
          /\ Len(indexed_docs[i].historical_vectors) = 2
          /\ indexed_docs[j].text = <<>>
          /\ Len(indexed_docs[j].historical_vectors) = 1
          /\ indexed_docs[j].reversibility = One \div 2
          /\ indexed_docs[j].timestamp = 12

(***************************************************************************)
(* Properties of the domain timestamps.                                    *)
(***************************************************************************)

\* C31: the last-access timestamp recorded for a host in the
\* domain-timestamp map never decreases: every update made by
\* respect_rate_limits stores a time that is not earlier than the value it
\* replaces.
C31_TimestampsNeverDecrease ==
    [][\A h \in Hosts :
          domain_timestamps[h] # NoTime =>
              domain_timestamps'[h] >= domain_timestamps[h]]_vars

(***************************************************************************)
(* Properties of the delivered documents and of the page budget.           *)
(***************************************************************************)

\* C32: no two documents delivered by one crawl carry the same url value,
\* for every set of link strings placed in the frontier (the visited set is
\* keyed by the link string as enqueued, the delivered url is the parsed URL
\* rendered back to a string).
C32_DeliveredUrlsDistinct ==
    \A i, j \in 1..Len(sent) : sent[i].url = sent[j].url => i = j

\* the requests issued so far
Fetched == SumOver(fetchCount, UrlStrings)

\* the head of the frontier is an unvisited string that fails to parse or
\* whose host the allow-list rejects
HeadRejected ==
    /\ url_queue # <<>>
    /\ Head(url_queue)[1] \notin visited_urls
    /\ \/ UrlParse(Head(url_queue)[1]) = ParseErr
       \/ /\ allowed # NoDomains
          /\ host_str(UrlParse(Head(url_queue)[1])) \notin allowed \cup {NoHost}

\* C33: a URL popped from the frontier that is rejected by the domain
\* allow-list, or that fails to parse, is nevertheless in the visited set and
\* counts toward the page budget max_pages, so the number of pages actually
\* fetched can be smaller than the visited count that stops the crawl.
C33_RejectedCountsAsVisited ==
    /\ [][(HeadRejected /\ url_queue' = Tail(url_queue)) =>
             /\ Head(url_queue)[1] \in visited_urls'
             /\ Cardinality(visited_urls') = Cardinality(visited_urls) + 1
             /\ Fetched' = Fetched
             /\ pc' = pc]_vars
    /\ [](Fetched <= Cardinality(visited_urls))

\* the crawl has stopped on its budget of two with one page fetched, the
\* other visited string being one the allow-list rejected or the parser
\* refused
C33_Witness ==
    /\ AllStopped
    /\ \E w \in Workers : pc[w] = "stopped_budget"
    /\ max_pages = 2
    /\ Cardinality(visited_urls) = 2
    /\ Fetched = 1
    /\ \E s \in visited_urls :
          \/ UrlParse(s) = ParseErr
          \/ (allowed # NoDomains /\ host_str(UrlParse(s)) \notin allowed)

\* C34: when the last crawl worker has stopped, either the frontier is
\* empty or the visited count is at least max_pages: no URL is left queued
\* while page budget remains, even though idle workers may stop while
\* another worker is still fetching a page that later enqueues links.
C34_NothingQueuedWithinBudget ==
    AllStopped => (url_queue = <<>> \/ Cardinality(visited_urls) >= max_pages)

\* every worker has stopped, one on the empty frontier and one on the
\* budget, after the link of the seed's page was enqueued and fetched
C34_Witness ==
    /\ AllStopped
    /\ \E w \in Workers : pc[w] = "stopped_empty"
    /\ \E w \in Workers : pc[w] = "stopped_budget"
    /\ seed_urls = <<"http://a">>
    /\ fetchCount["http://a"] = 1
    /\ fetchCount["http://a/"] = 1
    /\ url_queue = <<>>

(***************************************************************************)
(* Properties of the indexing loop.                                        *)
(***************************************************************************)

\* the store holds at most page_limit documents, and the loop has stopped
\* once a document was received and the store holds page_limit
WithinPageLimit ==
    /\ engineLen <= max_pages
    /\ (indexed # <<>> /\ engineLen >= max_pages) => consumerPc = "stopped_early"

\* after the loop has stopped early nothing more is received or indexed
StoppedLoopIndexesNothing ==
    consumerPc = "stopped_early" =>
        /\ engineLen' = engineLen
        /\ indexed' = indexed
        /\ consumerPc' = "stopped_early"
        /\ Len(chan') >= Len(chan)

\* C35: when the crawl-indexing loop starts with fewer documents than the
\* target page_limit, the document store never exceeds page_limit documents:
\* the loop stops right after the add_document call that brings the store
\* size to page_limit, leaving any later crawled documents unindexed.
C35_StoreWithinPageLimit ==
    /\ (engineLen < max_pages) => []WithinPageLimit
    /\ [][StoppedLoopIndexesNothing]_vars

\* the loop started with at most one document and a target of two, stopped
\* at two, and a later document waits in the channel
C35_Witness ==
    /\ max_pages = 2
    /\ engineLen = 2
    /\ consumerPc = "stopped_early"
    /\ indexed # <<>>
    /\ chan # <<>>

\* C36: after the consumer loop has stopped early at the target index size,
\* no crawl worker blocks forever sending on the bounded channel (capacity
\* 500, fewer than 10 preloaded documents, crawl budget equal to the index
\* target): the crawl task still runs to completion and the wait on its
\* handle returns.
C36_CrawlEndsAfterEarlyStop ==
    (consumerPc = "stopped_early") ~> AllStopped

\* the loop has stopped early, the crawl is over, and a document sent after
\* the stop is in the channel, which nothing receives from any more
C36_Witness ==
    /\ consumerPc = "stopped_early"
    /\ AllStopped
    /\ chan # <<>>
    /\ Len(sent) > Len(indexed)

(***************************************************************************)
(* Properties of the vocabulary.                                           *)
(***************************************************************************)

\* the step leaves both maps and the cursor as they were
VocabularyUnchanged ==
    /\ token_to_prime' = token_to_prime
    /\ prime_to_token' = prime_to_token
    /\ current_prime' = current_prime

\* the step is a call of tokenize on a text whose words are all in the
\* vocabulary
TokenizeKnownWords ==
    /\ tokCalls' = tokCalls + 1
    /\ \A word \in Range(find_iter(to_lowercase(lastText'), <<>>)) :
          word \in DOMAIN token_to_prime

\* C37: tokenize on a text whose words are all already in the vocabulary,
\* and tokenize_without_update on any input, leave both vocabulary maps and
\* the last-assigned-prime cursor unchanged; tokenize_without_update returns
\* its input sequence unchanged.
C37_LookupsLeaveVocabulary ==
    [][/\ TokenizeKnownWords => VocabularyUnchanged
       /\ (twuVars' # twuVars) =>
             (VocabularyUnchanged /\ twuOut' = twuPrimes')]_vars

\* the second call of tokenize had the text "a", whose word the first call
\* had put into the vocabulary before the word "b", and
\* tokenize_without_update has returned a slice with an id of the
\* vocabulary, a number that is not a prime and an id that is not assigned
C37_Witness ==
    /\ tokCalls = 2
    /\ lastText = <<"a">>
    /\ firstSeen = << <<"a">>, <<"b">> >>
    /\ current_prime = 5
    /\ twuPrimes = <<4, 11>>
    /\ twuOut = <<4, 11>>

\* C38: after any sequence of tokenize calls, token_to_prime and
\* prime_to_token are inverse bijections of equal size, every assigned id is
\* a prime greater than 2, and the cursor equals the largest assigned prime
\* (2 while the vocabulary is empty).
C38_VocabularyBijection ==
    /\ \A token \in DOMAIN token_to_prime :
          /\ token_to_prime[token] \in DOMAIN prime_to_token
          /\ prime_to_token[token_to_prime[token]] = token
    /\ \A p \in DOMAIN prime_to_token :
          /\ prime_to_token[p] \in DOMAIN token_to_prime
          /\ token_to_prime[prime_to_token[p]] = p
          /\ IsPrime(p)
          /\ p > 2
          /\ p <= current_prime
    /\ Cardinality(DOMAIN token_to_prime) = Cardinality(DOMAIN prime_to_token)
    /\ current_prime \in DOMAIN prime_to_token \cup {2}
    /\ (current_prime = 2) <=> (DOMAIN token_to_prime = {})

\* two calls have been made, the second on a text with a new word followed
\* by the word of the first: the vocabulary holds two tokens and the cursor
\* is at 5
C38_Witness ==
    /\ tokCalls = 2
    /\ lastOut = <<5, 3>>
    /\ Cardinality(DOMAIN token_to_prime) = 2
    /\ DOMAIN prime_to_token = {3, 5}
    /\ current_prime = 5

\* C39: whenever search or apply_quantum_jump computes now - doc.timestamp,
\* the document's timestamp is at most now, so the unsigned subtraction
\* never underflows; this holds for documents created by add_document,
\* refreshed by apply_quantum_jump, and loaded by load_checkpoint from any
\* well-formed checkpoint file.  Stated of the jump, which computes the
\* subtraction for every document one of whose dot_product values with the
\* query exceeds 0.1.
C39_SubtractionNeverUnderflows ==
    [][\A now \in EngineTimes, query \in ClockQueries, build \in Builds :
          apply_quantum_jump(query, Round(2 * One, 10), now, build) =>
             \A i \in 1..Len(indexed_docs) :
                (\E r \in dot_product(build_vector(tokenize(query).out),
                                      indexed_docs[i].vector) : resonates(r))
                    => indexed_docs[i].timestamp <= now]_vars

====
